---- MODULE Spec2Model ----
(***************************************************************************)
(* A model of the per-session learning and suggestion core of II-20:       *)
(* aimodel/AIModel.py (the session orchestrator), aimodel/Bucket.py,       *)
(* aimodel/DiscardPile.py, aimodel/SeenImages.py,                          *)
(* aimodel/RandomizedExplorer.py, aimodel/BucketColorManager.py and        *)
(* aimodel/ImageList.py, under AIModel.DEFAULT_MODEL_CONFIG (oracle mode   *)
(* "rf", exploration-search sliding with method "ann").                    *)
(*                                                                         *)
(* The linear SVM is opaque: a bucket either has a model or has none, and  *)
(* the ranking a model induces on the collection is any ranking.  The      *)
(* collection index is opaque in the same way: a distance ranking is any   *)
(* ranking of the candidates.  Every call is one atomic step; `ret` holds  *)
(* the call just made, its arguments and what it returned or raised, until *)
(* the response has been handed back (Return), and only then is the next   *)
(* call taken.                                                             *)
(*                                                                         *)
(* Six specifications share the actions and differ in what they let run:   *)
(* SpecCap (create, delete, toggle up to the active-bucket cap), SpecOrd   *)
(* (create, delete, swap, toggle), Spec (buckets, feedback, suggest),      *)
(* SpecTable (feedback of several entries around one suggest), SpecFF      *)
(* (create, delete, swap, feedback, fast-forward, commit) and SpecAll      *)
(* (every operation).  SpecStage is the fast-forward workflow with         *)
(* rejections (feedback, fast-forward, transfer, commit), SpecDud the      *)
(* suggestion rounds that refresh the exploration or do not, SpecSession   *)
(* the requests of one session, each holding the session's lock for its    *)
(* whole duration.  SpecConf applies Bucket._bucket_image_confidences to   *)
(* a list of scores and SpecIndex CollectionIndex.distances to two lists   *)
(* of images.  SpecTrain applies Bucket._train to a bucket and a discard   *)
(* pile and keeps the training rows and labels it builds; SpecOracle is    *)
(* one bucket under oracle mode "al": suggestion rounds with queries and   *)
(* the feedback on them.                                                   *)
(*                                                                         *)
(* Five variables are no program state: `calls` counts the calls that      *)
(* touch items, so that a session is a bounded number of them; `trained`   *)
(* records the buckets whose _train ran in the call just made; `moved`     *)
(* records the last move between two buckets and the state it started      *)
(* from; `explored` records the exploration images the last suggest        *)
(* returned; `session` records the requests in service and the holder of   *)
(* the session's lock.                                                     *)
(***************************************************************************)
EXTENDS Integers, Sequences, FiniteSets, TLC

\* ------------------------------------------------------------------ bounds
NItems == 3
MaxBucketId == 2
MaxBucketIdOrd == 4
MaxBucketIdCap == 9
MaxList == 2
MaxHeld == 2
MaxJudged == 1
MaxCount == 2
MaxFeedback == 1
MaxFeedbackTable == 2
MaxRoundsTable == 1
MaxRounds == 2
MaxCalls == 3
MaxStaged == 4
MaxTransfer == 2
MaxStageCalls == 4
MaxOracleRounds == 2
MaxOracleList == 4
NRequests == 2
MaxScore == 2
MaxScored == 3
NSubmat == 2
MaxK == 2
MaxDist == 2
MaxQuery == 2
expsearch_n_rounds == 1

\* ------------------------------------------------------- program constants
INIT_BUCKET_ID == 1
N_MAX_BUCKETS == 1000
N_MAX_ACTIVE_BUCKETS == 7
RANDOM_EXPLORE_REQUEST == -1
BUCKET_ID == 0
N_COLORS == 7
N_SUGG_CANDIDATE_MULT == 100
CONF_ALPHA_BREAKPOINT == 100
EXPSEARCH_SUGG_SVM == 0
EXPSEARCH_SUGG_INDEX == 1

\* A colour that is not one of COLORS_HEX: the shade or tint assign_color
\* derives once the palette is exhausted.
DerivedColor == N_COLORS

\* Python's None, as a feedback value and as "no suggested bucket": a value
\* that is no bucket id, not the discard pile and not the explore request.
None == -2

Items == 0 .. (NItems - 1)

VARIABLES
    buckets,            \* AIModel.buckets: bucket id -> Bucket
    next_bucket_id,     \* AIModel.next_bucket_id
    taken,              \* BucketColorManager.taken
    seen,               \* SeenImages.seen
    pile,               \* DiscardPile.pile
    discard_ff,         \* DiscardPile.outstanding_ff
    rx_suggs,           \* RandomizedExplorer.outstanding_suggs
    outstanding_suggs,  \* AIModel.outstanding_suggs: image -> suggested bucket
    ret,                \* the call just made: op, arguments, result, error
    trained,            \* the buckets whose _train ran in the call just made
    moved,              \* the move between buckets just made, the state before
                        \* it, and whether it takes the move before it back
    calls,              \* the calls counted against the session's bound
    explored,           \* the exploration items the last suggest returned
    session             \* the requests in service: who holds the session
                        \* and where each request handler stands

vars == <<buckets, next_bucket_id, taken, seen, pile, discard_ff, rx_suggs,
          outstanding_suggs, ret, trained, moved, calls, explored, session>>

\* What only the specifications of the exploration cache and of the request
\* handlers follow.
aside == <<explored, session>>

itemVars ==
    <<seen, pile, discard_ff, rx_suggs, outstanding_suggs, trained, moved,
      calls>>

\* ----------------------------------------------------------------- helpers
SeqToSet(s) == {s[i] : i \in DOMAIN s}

IndexOf(s, x) == CHOOSE i \in DOMAIN s : s[i] = x /\ \A j \in 1 .. (i - 1) : s[j] # x

RemoveAt(s, i) == [j \in 1 .. (Len(s) - 1) |-> IF j < i THEN s[j] ELSE s[j + 1]]

RECURSIVE SumSeq(_)
SumSeq(s) == IF s = <<>> THEN 0 ELSE Head(s) + SumSeq(Tail(s))

\* The sequences of distinct elements of S, of length exactly k.
RECURSIVE Arrangements(_, _)
Arrangements(S, k) ==
    IF k = 0 THEN {<<>>}
    ELSE UNION {{<<x>> \o t : t \in Arrangements(S \ {x}, k - 1)} : x \in S}

Min(a, b) == IF a < b THEN a ELSE b

Zeros(n) == [i \in 1 .. n |-> 0]

\* A float that is the quotient of two integers: num/den with den > 0.
Fraction(num, den) == [kind |-> "num", num |-> num, den |-> den]

Call(op, arg, out, err) == [op |-> op, arg |-> arg, out |-> out, err |-> err]

\* No move between buckets was the last call on the items.
NoMove ==
    [made |-> FALSE, back |-> FALSE, arg |-> <<>>, bks |-> <<>>, seen |-> {}]

\* No exploration items are on record.
NoExplored == [made |-> FALSE, count |-> 0, images |-> <<>>]

\* The requests a session serves at a time.
Requests == 1 .. NRequests

\* No request has arrived and nobody holds the session.
NoRequests ==
    [lock |-> 0, pc |-> [r \in Requests |-> "idle"], op |-> [r \in Requests |-> "none"]]

\* No call is pending.
Idle == Call("idle", <<>>, <<>>, "none")

\* ------------------------------------------------------ BucketColorManager
FreeColors == {i \in 0 .. (N_COLORS - 1) : ~taken[i]}

LowestFree == CHOOSE i \in FreeColors : \A j \in FreeColors : i <= j

\* assign_color: the colour handed out
assign_color == IF FreeColors # {} THEN LowestFree ELSE DerivedColor

\* assign_color: the palette afterwards
TakenAfterAssign ==
    IF FreeColors # {} THEN [taken EXCEPT ![LowestFree] = TRUE] ELSE taken

\* Mutant of relinquish_color: the slot stays taken.
RelinquishNothing(color) == taken

\* relinquish_color: the palette afterwards
relinquish_color(color) ==
    IF color \in 0 .. (N_COLORS - 1) THEN [taken EXCEPT ![color] = FALSE] ELSE taken

\* ------------------------------------------------------------------ Bucket
\* The channels with a sliding window: the SVM and the index.
SuggTypes == {EXPSEARCH_SUGG_SVM, EXPSEARCH_SUGG_INDEX}

NewBucket(is_active, ordering, color) ==
    [ordering |-> ordering,
     active |-> is_active,
     color |-> color,
     images |-> <<>>,
     n_img_confidences |-> 0,
     negatives |-> <<>>,
     svm_model |-> FALSE,
     n_good_suggs |-> 0,
     n_judged_suggs |-> 0,
     precision |-> Fraction(1, 1),
     outstanding_ff |-> <<>>,
     bad_ff |-> <<>>,
     outstanding_suggs |-> [st \in SuggTypes |-> <<>>],
     good_suggs |-> [st \in SuggTypes |-> Zeros(expsearch_n_rounds)],
     all_suggs |-> [st \in SuggTypes |-> Zeros(expsearch_n_rounds)]]

\* Mutant of update_ordering_after_deletion: the gap is left open.
KeepOrdering(bucket, del_bucket_ordering) == bucket

update_ordering_after_deletion(bucket, del_bucket_ordering) ==
    IF bucket.ordering > del_bucket_ordering
    THEN [bucket EXCEPT !.ordering = @ - 1]
    ELSE bucket

\* ------------------------------------------------------ AIModel: lifecycle
BucketIds == DOMAIN buckets

_active_buckets == {b \in BucketIds : buckets[b].active}

_trained_buckets == {b \in BucketIds : buckets[b].svm_model}

\* Mutant of NewBucketActive: the cap is not consulted.
NewBucketAlwaysActive == TRUE

NewBucketActive == Cardinality(_active_buckets) < N_MAX_ACTIVE_BUCKETS

\* Mutant of NextBucketId: the counter is not advanced.
SameBucketId == next_bucket_id

\* self.next_bucket_id += 1
NextBucketId == next_bucket_id + 1

\* maxId bounds the ids the model hands out.
create_bucket(maxId) ==
    /\ ret = Idle
    /\ next_bucket_id <= maxId
    /\ IF Cardinality(BucketIds) >= N_MAX_BUCKETS
       THEN /\ ret' = Call("create_bucket", <<>>, <<>>, "MaxBuckets")
            /\ UNCHANGED <<buckets, next_bucket_id, taken>>
       ELSE /\ buckets' =
                [b \in BucketIds \cup {next_bucket_id} |->
                    IF b = next_bucket_id
                    THEN NewBucket(NewBucketActive, Cardinality(BucketIds),
                                   assign_color)
                    ELSE buckets[b]]
            /\ taken' = TakenAfterAssign
            /\ next_bucket_id' = NextBucketId
            /\ ret' = Call("create_bucket", <<>>,
                           <<next_bucket_id, NewBucketActive>>, "none")
    /\ UNCHANGED itemVars

\* Mutant of LastBucket: the last bucket is not protected.
NeverLastBucket == FALSE

\* if len(self.buckets) == 1
LastBucket == Cardinality(BucketIds) = 1

AfterDeletion(bucket_id) ==
    [b \in BucketIds \ {bucket_id} |->
        update_ordering_after_deletion(buckets[b], buckets[bucket_id].ordering)]

delete_bucket(maxId) ==
    \E bucket_id \in 1 .. maxId :
        /\ ret = Idle
        /\ IF LastBucket
           THEN /\ ret' = Call("delete_bucket", <<bucket_id>>, <<>>,
                               "CannotDeleteLast")
                /\ UNCHANGED <<buckets, taken>>
           ELSE IF bucket_id \notin BucketIds
           THEN /\ ret' = Call("delete_bucket", <<bucket_id>>, <<>>,
                               "InvalidBucketKey")
                /\ UNCHANGED <<buckets, taken>>
           ELSE /\ taken' = relinquish_color(buckets[bucket_id].color)
                /\ buckets' = AfterDeletion(bucket_id)
                /\ ret' = Call("delete_bucket", <<bucket_id>>, <<bucket_id>>,
                               "none")
        /\ UNCHANGED <<next_bucket_id>>
        /\ UNCHANGED itemVars

Swapped(bucket1_id, bucket2_id) ==
    [buckets EXCEPT ![bucket1_id].ordering = buckets[bucket2_id].ordering,
                    ![bucket2_id].ordering = buckets[bucket1_id].ordering]

swap_buckets(maxId) ==
    \E bucket1_id, bucket2_id \in 1 .. maxId :
        /\ ret = Idle
        /\ IF bucket1_id \notin BucketIds \/ bucket2_id \notin BucketIds
           THEN /\ ret' = Call("swap_buckets", <<bucket1_id, bucket2_id>>, <<>>,
                               "InvalidBucketKey")
                /\ UNCHANGED buckets
           ELSE /\ buckets' = Swapped(bucket1_id, bucket2_id)
                /\ ret' = Call("swap_buckets", <<bucket1_id, bucket2_id>>,
                               <<bucket1_id, bucket2_id>>, "none")
        /\ UNCHANGED <<next_bucket_id, taken>>
        /\ UNCHANGED itemVars

ToggleDenied(bucket_id) ==
    /\ ~buckets[bucket_id].active
    /\ Cardinality(_active_buckets) >= N_MAX_ACTIVE_BUCKETS

toggle_bucket(maxId) ==
    \E bucket_id \in 1 .. maxId :
        /\ ret = Idle
        /\ IF bucket_id \notin BucketIds
           THEN /\ ret' = Call("toggle_bucket", <<bucket_id>>, <<>>,
                               "InvalidBucketKey")
                /\ UNCHANGED buckets
           ELSE IF ToggleDenied(bucket_id)
           THEN /\ ret' = Call("toggle_bucket", <<bucket_id>>, <<>>, "MaxActive")
                /\ UNCHANGED buckets
           ELSE /\ buckets' = [buckets EXCEPT ![bucket_id].active = ~@]
                /\ ret' = Call("toggle_bucket", <<bucket_id>>,
                               <<bucket_id, ~buckets[bucket_id].active>>, "none")
        /\ UNCHANGED <<next_bucket_id, taken>>
        /\ UNCHANGED itemVars

\* --------------------------------------------------------------- SeenImages
\* Mutant of SeenUpdate: the set is replaced, not extended.
SeenReplaced(s, new_seen) == SeqToSet(new_seen)

\* update: the set afterwards
SeenUpdate(s, new_seen) == s \cup SeqToSet(new_seen)

\* update raises DatasetExhaustedError when the set has reached the collection
\* size (the class derives from nothing, so Python surfaces a TypeError).
Exhausted(s) == Cardinality(s) = NItems

all_unseen(exclude) == (Items \ seen) \ exclude

\* ------------------------------------------------------------ Bucket._train
\* The rows features.get has to sample from the rest of the collection: the
\* negatives missing after the bucket's own and the whole discard pile.
n_negs_rand_coll_img(bk, pl) ==
    LET n_positives == Len(bk.images)
        n_negatives == Len(bk.negatives)
    IN  IF n_negatives < 2 * n_positives
           /\ Len(pl) < 2 * n_positives - n_negatives
        THEN 2 * n_positives - n_negatives - Len(pl)
        ELSE 0

\* features.get: random.sample raises ValueError when the collection holds
\* fewer rows outside train_idx than it is asked to add.
TrainFails(bk, pl) ==
    /\ Len(bk.images) > 0
    /\ n_negs_rand_coll_img(bk, pl) >
           Cardinality(Items \ (SeqToSet(bk.images) \cup SeqToSet(bk.negatives)
                                \cup SeqToSet(pl)))

\* Mutant of _train: a bucket left with no image keeps its model.
TrainKeepsModel(bk, pl) ==
    IF Len(bk.images) = 0
    THEN bk
    ELSE [bk EXCEPT !.svm_model = TRUE, !.n_img_confidences = Len(bk.images)]

\* _train, when it returns: no positives, no model; else a fresh model and
\* one confidence per bucket image.
_train(bk, pl) ==
    IF Len(bk.images) = 0
    THEN [bk EXCEPT !.svm_model = FALSE]
    ELSE [bk EXCEPT !.svm_model = TRUE, !.n_img_confidences = Len(bk.images)]

\* ------------------------------------------------------- Bucket._confidence
\* An SVM score is an integer of -MaxScore .. MaxScore (a fixed-point float);
\* a quotient of two scores is a Fraction, or what float64 division by 0.0
\* yields: nan for 0/0, an infinity otherwise.
Scores == (0 - MaxScore) .. MaxScore

NotANumber == [kind |-> "nan", num |-> 0, den |-> 1]

\* s / self.best_img_svm_score
TrueDivide(s, best_img_svm_score) ==
    IF best_img_svm_score = 0
    THEN IF s = 0 THEN NotANumber
         ELSE IF s > 0 THEN [kind |-> "inf", num |-> 1, den |-> 1]
         ELSE [kind |-> "-inf", num |-> 0 - 1, den |-> 1]
    ELSE IF best_img_svm_score > 0
    THEN Fraction(s, best_img_svm_score)
    ELSE Fraction(0 - s, 0 - best_img_svm_score)

\* max(q, 0.0): q unless 0.0 > q, which nan never satisfies
MaxWithZero(q) ==
    IF q.kind = "-inf" \/ (q.kind = "num" /\ q.num < 0)
    THEN Fraction(0, 1) ELSE q

\* min(q, 1.0): q unless 1.0 < q
MinWithOne(q) ==
    IF q.kind = "inf" \/ (q.kind = "num" /\ q.num > q.den)
    THEN Fraction(1, 1) ELSE q

_confidence(svm_scores, best_img_svm_score) ==
    [i \in DOMAIN svm_scores |->
        MinWithOne(MaxWithZero(TrueDivide(svm_scores[i], best_img_svm_score)))]

\* np.max
MaxOf(s) == CHOOSE m \in SeqToSet(s) : \A x \in SeqToSet(s) : x <= m

\* confidence_color: int(alpha) raises ValueError on nan; the colour is the
\* bucket colour with the alpha appended, so the alpha stands for it.
confidence_color(confidence) ==
    IF confidence.kind = "nan" THEN [err |-> "ValueError", alpha |-> 0]
    ELSE [err |-> "none",
          alpha |-> CONF_ALPHA_BREAKPOINT
                      + (confidence.num * (255 - CONF_ALPHA_BREAKPOINT))
                            \div confidence.den]

\* _bucket_image_confidences on the scores decision_function gave for the
\* bucket's images: the fields it sets, and img_confidence_colors only when
\* every colour could be computed.
_bucket_image_confidences(img_svm_scores) ==
    LET best_img_svm_score == MaxOf(img_svm_scores)
        img_confidences == _confidence(img_svm_scores, best_img_svm_score)
        colors == [i \in DOMAIN img_confidences |->
                      confidence_color(img_confidences[i])]
        raises == \E i \in DOMAIN colors : colors[i].err # "none"
    IN  [img_svm_scores |-> img_svm_scores,
         best_img_svm_score |-> best_img_svm_score,
         img_confidences |-> img_confidences,
         img_confidence_colors |->
            IF raises THEN <<>>
            ELSE [i \in DOMAIN colors |-> colors[i].alpha],
         err |-> IF raises THEN "ValueError" ELSE "none"]

\* The scores a fitted model can give the images of a bucket.
ScoreLists == UNION {[1 .. k -> Scores] : k \in 1 .. MaxScored}

\* ---------------------------------------------------- Bucket.user_feedback
CountIn(good_suggs, outstanding) ==
    Cardinality({i \in DOMAIN good_suggs : good_suggs[i] \in SeqToSet(outstanding)})

\* Mutant of Slide: the window keeps its oldest record.
SlideKeepsOldest(window, entry) == window \o <<entry>>

Slide(window, entry) == Tail(window) \o <<entry>>

\* Mutant of FeedbackApplied: the neutral assignments count as judged.
FeedbackCountsNeutral(bk, good_suggs, neutral_assignments, bad_suggs) ==
    LET n_good_suggs == bk.n_good_suggs + Len(good_suggs)
        n_judged_suggs == bk.n_judged_suggs + Len(good_suggs)
                              + Len(neutral_assignments) + Len(bad_suggs)
    IN
    [bk EXCEPT
        !.images = @ \o good_suggs \o neutral_assignments,
        !.n_good_suggs = n_good_suggs,
        !.n_judged_suggs = n_judged_suggs,
        !.precision = IF n_judged_suggs = 0 THEN Fraction(1, 1)
                      ELSE Fraction(n_good_suggs, n_judged_suggs),
        !.all_suggs =
            [st \in SuggTypes |->
                Slide(bk.all_suggs[st], Len(bk.outstanding_suggs[st]))],
        !.good_suggs =
            [st \in SuggTypes |->
                Slide(bk.good_suggs[st],
                      CountIn(good_suggs, bk.outstanding_suggs[st]))],
        !.negatives = @ \o bad_suggs]

\* Everything user_feedback does before it retrains; the precision is
\* n_good_suggs / n_judged_suggs, and 1.0 on ZeroDivisionError.
FeedbackApplied(bk, good_suggs, neutral_assignments, bad_suggs) ==
    LET n_good_suggs == bk.n_good_suggs + Len(good_suggs)
        n_judged_suggs == bk.n_judged_suggs + Len(good_suggs) + Len(bad_suggs)
    IN
    [bk EXCEPT
        !.images = @ \o good_suggs \o neutral_assignments,
        !.n_good_suggs = n_good_suggs,
        !.n_judged_suggs = n_judged_suggs,
        !.precision = IF n_judged_suggs = 0 THEN Fraction(1, 1)
                      ELSE Fraction(n_good_suggs, n_judged_suggs),
        !.all_suggs =
            [st \in SuggTypes |->
                Slide(bk.all_suggs[st], Len(bk.outstanding_suggs[st]))],
        !.good_suggs =
            [st \in SuggTypes |->
                Slide(bk.good_suggs[st],
                      CountIn(good_suggs, bk.outstanding_suggs[st]))],
        !.negatives = @ \o bad_suggs]

\* Mutant of EmptyFeedback: no feedback counts as empty.
NeverEmpty(good_suggs, neutral_assignments, bad_suggs) == FALSE

EmptyFeedback(good_suggs, neutral_assignments, bad_suggs) ==
    Len(good_suggs) = 0 /\ Len(neutral_assignments) = 0 /\ Len(bad_suggs) = 0

\* Bucket.user_feedback raises (out of _train)
BucketFeedbackFails(bk, good_suggs, neutral_assignments, bad_suggs, pl) ==
    /\ ~EmptyFeedback(good_suggs, neutral_assignments, bad_suggs)
    /\ TrainFails(FeedbackApplied(bk, good_suggs, neutral_assignments, bad_suggs),
                  pl)

\* Bucket.user_feedback: the bucket afterwards (when _train raises, the lists
\* and counters are already updated and the model is the old one).
BucketFeedback(bk, good_suggs, neutral_assignments, bad_suggs, pl) ==
    IF EmptyFeedback(good_suggs, neutral_assignments, bad_suggs)
    THEN bk
    ELSE LET fed == FeedbackApplied(bk, good_suggs, neutral_assignments,
                                    bad_suggs)
         IN  IF TrainFails(fed, pl) THEN fed ELSE _train(fed, pl)

\* The model's bounds on what the buckets and the discard pile hold.
RECURSIVE SumOver(_, _)
SumOver(f, S) ==
    IF S = {} THEN 0
    ELSE LET b == CHOOSE x \in S : TRUE IN f[b] + SumOver(f, S \ {b})

WithinBounds(bks, pl) ==
    /\ \A b \in DOMAIN bks :
          /\ Len(bks[b].images) <= MaxList
          /\ Len(bks[b].negatives) <= MaxList
    /\ Len(pl) <= MaxList
    /\ SumOver([b \in DOMAIN bks |-> Len(bks[b].images)], DOMAIN bks)
          + Len(pl) <= MaxHeld
    /\ SumOver([b \in DOMAIN bks |-> bks[b].n_judged_suggs], DOMAIN bks)
          <= MaxJudged

\* --------------------------------------------------- AIModel.user_feedback
\* The bucket an image was suggested for, from the outstanding suggestions.
SuggestedBucket(image) ==
    IF image \in DOMAIN outstanding_suggs THEN outstanding_suggs[image] ELSE None

\* Python truth of a bucket id: None and 0 are false.
Truthy(bucket) == bucket # None /\ bucket # 0

\* Mutant of EntryBins: a reassigned suggestion is not reported bad to the
\* bucket that suggested it.
EntryBinsNoBad(assigned_bucket, suggested_bucket) ==
    IF assigned_bucket = BUCKET_ID
    THEN IF Truthy(suggested_bucket)
         THEN [bins |-> <<<<suggested_bucket, "bad">>>>, bug |-> FALSE]
         ELSE [bins |-> <<>>, bug |-> FALSE]
    ELSE IF ~Truthy(suggested_bucket)
    THEN [bins |-> <<<<assigned_bucket, "neutral">>>>, bug |-> FALSE]
    ELSE IF assigned_bucket = suggested_bucket
    THEN [bins |-> <<<<suggested_bucket, "good">>>>, bug |-> FALSE]
    ELSE [bins |-> <<<<assigned_bucket, "neutral">>>>, bug |-> FALSE]

\* The bins one feedback entry is appended to, as <<bucket, bin>> in the order
\* the code appends; bug is the fall-through branch.
EntryBins(assigned_bucket, suggested_bucket) ==
    IF assigned_bucket = BUCKET_ID
    THEN IF Truthy(suggested_bucket)
         THEN [bins |-> <<<<suggested_bucket, "bad">>>>, bug |-> FALSE]
         ELSE [bins |-> <<>>, bug |-> FALSE]
    ELSE IF ~Truthy(suggested_bucket)
    THEN [bins |-> <<<<assigned_bucket, "neutral">>>>, bug |-> FALSE]
    ELSE IF assigned_bucket = suggested_bucket
    THEN [bins |-> <<<<suggested_bucket, "good">>>>, bug |-> FALSE]
    ELSE IF assigned_bucket # suggested_bucket
    THEN [bins |-> <<<<assigned_bucket, "neutral">>, <<suggested_bucket, "bad">>>>,
          bug |-> FALSE]
    ELSE [bins |-> <<>>, bug |-> TRUE]

Judged(user_feedback) ==
    SelectSeq(user_feedback, LAMBDA e : e.assigned # None)

BinsOf(e) == EntryBins(e.assigned, SuggestedBucket(e.image)).bins

\* bucketwise_feedback[b][bin]
RECURSIVE Bin(_, _, _)
Bin(fb, b, bin) ==
    IF fb = <<>> THEN <<>>
    ELSE (IF <<b, bin>> \in SeqToSet(BinsOf(Head(fb)))
          THEN <<Head(fb).image>> ELSE <<>>) \o Bin(Tail(fb), b, bin)

bucketwise_feedback(user_feedback) ==
    [b \in BucketIds |->
        [good |-> Bin(Judged(user_feedback), b, "good"),
         neutral |-> Bin(Judged(user_feedback), b, "neutral"),
         bad |-> Bin(Judged(user_feedback), b, "bad")]]

discarded_img(user_feedback) ==
    LET d == SelectSeq(Judged(user_feedback), LAMBDA e : e.assigned = BUCKET_ID)
    IN  [i \in DOMAIN d |-> d[i].image]

seen_images(user_feedback) ==
    LET j == Judged(user_feedback) IN [i \in DOMAIN j |-> j[i].image]

\* bucketwise_feedback[...] with a key that is no bucket: KeyError
FeedbackKeyError(user_feedback) ==
    \E i \in DOMAIN Judged(user_feedback) :
        \E w \in SeqToSet(BinsOf(Judged(user_feedback)[i])) :
            w[1] \notin BucketIds

FeedbackBug(user_feedback) ==
    \E i \in DOMAIN Judged(user_feedback) :
        EntryBins(Judged(user_feedback)[i].assigned,
                  SuggestedBucket(Judged(user_feedback)[i].image)).bug

\* The buckets fail in dictionary order, which is the order of creation.
FailingBuckets(bw, pl) ==
    {b \in BucketIds :
        BucketFeedbackFails(buckets[b], bw[b].good, bw[b].neutral, bw[b].bad, pl)}

FirstOf(S) == CHOOSE b \in S : \A c \in S : b <= c

\* The buckets whose user_feedback got as far as _train.
TrainedInFeedback(bw, pl) ==
    {b \in BucketIds :
        /\ ~EmptyFeedback(bw[b].good, bw[b].neutral, bw[b].bad)
        /\ FailingBuckets(bw, pl) # {} => b <= FirstOf(FailingBuckets(bw, pl))}

BucketsAfterFeedback(bw, pl) ==
    LET failing == FailingBuckets(bw, pl)
    IN  [b \in BucketIds |->
            IF failing # {} /\ b > FirstOf(failing)
            THEN buckets[b]
            ELSE BucketFeedback(buckets[b], bw[b].good, bw[b].neutral,
                                bw[b].bad, pl)]

FeedbackInputs(maxEntries) ==
    UNION {{[i \in 1 .. k |-> [image |-> imgs[i], assigned |-> asg[i]]] :
                imgs \in Arrangements(Items, k),
                asg \in [1 .. k -> {None} \cup (0 .. MaxBucketId)]} :
           k \in 0 .. maxEntries}

user_feedback(maxEntries) ==
    /\ ret = Idle
    /\ moved' = NoMove
    /\ \E fb \in FeedbackInputs(maxEntries) :
        LET bw == bucketwise_feedback(fb)
            out == <<bw, discarded_img(fb), seen_images(fb)>>
            failing == FailingBuckets(bw, pile)
            after == BucketsAfterFeedback(bw, pile)
        IN
        IF FeedbackKeyError(fb) \/ FeedbackBug(fb)
        THEN /\ ret' = Call("user_feedback", fb, <<>>,
                            IF FeedbackBug(fb) /\ ~FeedbackKeyError(fb)
                            THEN "BUG" ELSE "KeyError")
             /\ trained' = {}
             /\ UNCHANGED <<buckets, seen, pile>>
             /\ UNCHANGED <<next_bucket_id, taken, discard_ff, rx_suggs,
                            outstanding_suggs>>
        ELSE
        /\ WithinBounds(after, pile \o discarded_img(fb))
        /\ buckets' = after
        /\ trained' = TrainedInFeedback(bw, pile)
        /\ IF failing # {}
           THEN /\ ret' = Call("user_feedback", fb, out, "TrainValueError")
                /\ UNCHANGED <<seen, pile>>
           ELSE /\ pile' = pile \o discarded_img(fb)
                /\ seen' = SeenUpdate(seen, seen_images(fb))
                /\ ret' = Call("user_feedback", fb, out,
                               IF Exhausted(SeenUpdate(seen, seen_images(fb)))
                               THEN "DatasetExhausted" ELSE "none")
        /\ UNCHANGED <<next_bucket_id, taken, discard_ff, rx_suggs,
                       outstanding_suggs>>

\* ------------------------------------------------ RandomizedExplorer.suggest
\* random_unseen_images(n_random, exclude), given that candidates exist: all
\* of them when fewer than n_random, a random sample otherwise.
random_unseen_images(n_random, exclude) ==
    IF n_random > Cardinality(all_unseen(exclude))
    THEN {all_unseen(exclude)}
    ELSE {c \in SUBSET all_unseen(exclude) : Cardinality(c) = n_random}

\* The new suggestions once candidates exist.  With nothing seen the distance
\* matrix has no columns, np.min raises ValueError and the explorer falls back
\* to random.sample(range(n), n_new), which itself raises when n_new > n.
NewRandExp(n_new_rand_exp, prev_suggs) ==
    IF seen = {}
    THEN IF n_new_rand_exp > NItems
         THEN {[err |-> "SampleValueError", images |-> <<>>]}
         ELSE {[err |-> "none", images |-> a] :
                    a \in Arrangements(Items, n_new_rand_exp)}
    ELSE UNION {{[err |-> "none", images |-> a] :
                    a \in Arrangements(rc, Min(n_new_rand_exp, Cardinality(rc)))} :
                rc \in random_unseen_images(
                          n_new_rand_exp * N_SUGG_CANDIDATE_MULT, prev_suggs)}

\* suggest(n_suggs, refresh, return_raw_suggs=True, prev_suggs): the outcomes,
\* each the raw image list and the explorer's outstanding_suggs afterwards.
RxSuggest(cache, n_suggs, refresh, prev_suggs) ==
    LET suggs_images ==
            IF refresh THEN <<>> ELSE SubSeq(cache, 1, Min(n_suggs, Len(cache)))
        n_new_rand_exp == n_suggs - Len(suggs_images)
    IN  IF n_new_rand_exp > 0
        THEN IF all_unseen(prev_suggs) = {}
             THEN {[err |-> "DatasetExhausted", images |-> <<>>, cache |-> cache]}
             ELSE {IF new.err # "none"
                   THEN [err |-> new.err, images |-> <<>>, cache |-> cache]
                   ELSE [err |-> "none",
                         images |-> suggs_images \o new.images,
                         cache |-> suggs_images \o new.images] :
                        new \in NewRandExp(n_new_rand_exp, prev_suggs)}
        ELSE {[err |-> "none", images |-> suggs_images, cache |-> cache]}

\* Mutant of ListLengthsMatch: the lengths are not compared.
LengthsUnchecked(images, n_confidences) == TRUE

\* ImageList.image_list: the parallel lists must have one length.
ListLengthsMatch(images, n_confidences) == Len(images) = n_confidences

\* suggest(n_suggs, refresh): the image list, every entry for bucket 0.
RxImageList(cache, n_suggs, refresh) ==
    {IF o.err = "none" /\ ~ListLengthsMatch(o.images, n_suggs)
     THEN [o EXCEPT !.err = "ListLengthBug", !.images = <<>>]
     ELSE o : o \in RxSuggest(cache, n_suggs, refresh, {})}

\* ------------------------------------------------------------ Bucket.suggest
\* model_confidences[st] = sqrt(sum(good)/sum(all)), 1.0 when nothing was
\* suggested; only whether it is 0, 1 or in between decides the split.
ConfidenceIsOne(bk, st) ==
    \/ SumSeq(bk.all_suggs[st]) = 0
    \/ SumSeq(bk.good_suggs[st]) >= SumSeq(bk.all_suggs[st])

ConfidenceIsZero(bk, st) ==
    /\ SumSeq(bk.all_suggs[st]) > 0
    /\ SumSeq(bk.good_suggs[st]) = 0

\* The roulette: a slot goes to the SVM when r <= svm_threshold (r = 0.0 can
\* be drawn), to the index when svm_threshold < r <= index_threshold, to the
\* randomized explorer when index_threshold < r, for r in [0, 1).
IndexSlotPossible(bk) ==
    /\ ~ConfidenceIsOne(bk, EXPSEARCH_SUGG_SVM)
    /\ ~ConfidenceIsZero(bk, EXPSEARCH_SUGG_INDEX)

RandexpSlotPossible(bk) ==
    /\ ~ConfidenceIsOne(bk, EXPSEARCH_SUGG_SVM)
    /\ ~ConfidenceIsOne(bk, EXPSEARCH_SUGG_INDEX)

Splits(bk, n_suggs) ==
    {sp \in [svm : 0 .. n_suggs, index : 0 .. n_suggs, randexp : 0 .. n_suggs] :
        /\ sp.svm + sp.index + sp.randexp = n_suggs
        /\ sp.index > 0 => IndexSlotPossible(bk)
        /\ sp.randexp > 0 => RandexpSlotPossible(bk)}

\* _top_images(top_definition, n_top): the seen images are given an infinite
\* score of the losing sign, so they rank last but stay in the ranking.
\* n_top = 0 is "no n_top": the whole ranking.
_top_images(n_top) ==
    LET k == IF n_top = 0 THEN NItems ELSE Min(n_top, NItems)
        k_unseen == Min(k, Cardinality(Items \ seen))
    IN  UNION {{a \o b : b \in Arrangements(seen, k - k_unseen)} :
                  a \in Arrangements(Items \ seen, k_unseen)}

\* _ann_suggs(n_suggs, prev_suggs): no bucket image is an empty query
\* (ValueError); an empty collection sample is an empty float array, which
\* numpy refuses as an index (IndexError).
AnnSuggs(bk, n_suggs, prev_suggs) ==
    IF Len(bk.images) = 0
    THEN {[err |-> "EmptyQuery", images |-> <<>>]}
    ELSE IF all_unseen(prev_suggs) = {}
    THEN {[err |-> "IndexError", images |-> <<>>]}
    ELSE {[err |-> "none", images |-> a] :
            a \in Arrangements(all_unseen(prev_suggs),
                               Min(n_suggs, Cardinality(all_unseen(prev_suggs))))}

\* all_images_svm_ranked[:n_svm_suggs]
TopRanked(n_svm_suggs) ==
    IF n_svm_suggs = 0 THEN {<<>>} ELSE _top_images(n_svm_suggs)

Failed(err, cache, bk) ==
    [err |-> err, images |-> <<>>, cache |-> cache, bucket |-> bk]

\* The randomized-explorer channel and the final list, for one choice of the
\* SVM and index channels.
SuggestTail(bk, n_suggs, cache, svm_suggs, index_suggs, n_randexp_suggs) ==
    {IF rx.err # "none"
     THEN Failed(rx.err, cache, bk)
     ELSE LET suggs_images == svm_suggs \o index_suggs \o rx.images
              fed == [bk EXCEPT !.outstanding_suggs =
                            [st \in SuggTypes |->
                                IF st = EXPSEARCH_SUGG_SVM
                                THEN svm_suggs ELSE index_suggs]]
          IN  IF ListLengthsMatch(suggs_images, n_suggs)
              THEN [err |-> "none", images |-> suggs_images,
                    cache |-> rx.cache, bucket |-> fed]
              ELSE Failed("ListLengthBug", rx.cache, fed) :
        rx \in RxSuggest(cache, n_randexp_suggs, TRUE,
                         SeqToSet(svm_suggs) \cup SeqToSet(index_suggs))}

\* Bucket.suggest(n_suggs) of a trained bucket: the outcomes, each the image
\* list, the bucket and the explorer's cache afterwards.
BucketSuggest(bk, n_suggs, cache) ==
    UNION {UNION {UNION {
        IF ann.err # "none"
        THEN {Failed(ann.err, cache, bk)}
        ELSE SuggestTail(bk, n_suggs, cache, svm_suggs, ann.images,
                         sp.randexp + (sp.index - Len(ann.images))) :
        ann \in AnnSuggs(bk, sp.index, SeqToSet(svm_suggs))} :
        svm_suggs \in TopRanked(sp.svm)} :
        sp \in Splits(bk, n_suggs)}

\* ----------------------------------------------------------- AIModel.suggest
\* The entries of a suggestion list; key is the request key they answer.
Entries(images, bucket, key) ==
    [i \in DOMAIN images |-> [image |-> images[i], bucket |-> bucket, key |-> key]]

\* Mutant of SortedByOrdering: the buckets are served in the request's order.
RequestOrder(keys) == [i \in DOMAIN keys |-> i]

\* bucket_orderings.sort(key=ordering): ascending display order, the request's
\* own order among equals.
SortedByOrdering(keys) ==
    CHOOSE p \in Arrangements(DOMAIN keys, Len(keys)) :
        \A i, j \in DOMAIN p :
            i < j => \/ buckets[keys[p[i]]].ordering < buckets[keys[p[j]]].ordering
                     \/ /\ buckets[keys[p[i]]].ordering = buckets[keys[p[j]]].ordering
                        /\ p[i] < p[j]

\* The bucket's own answer, or the randomized explorer's when the bucket has
\* no model (BucketNotActiveError).
Answer(acc, b, n, refresh) ==
    IF acc.bks[b].svm_model
    THEN {[err |-> o.err, suggs |-> acc.suggs \o Entries(o.images, b, b),
           cache |-> o.cache, bks |-> [acc.bks EXCEPT ![b] = o.bucket]] :
                o \in BucketSuggest(acc.bks[b], n, acc.cache)}
    ELSE {[err |-> o.err, suggs |-> acc.suggs \o Entries(o.images, BUCKET_ID, b),
           cache |-> o.cache, bks |-> acc.bks] :
                o \in RxImageList(acc.cache, n, refresh)}

\* if len(suggs) < sugg_request[b]: fill up from the randomized explorer.
TopUp(acc, b, n, refresh) ==
    IF acc.err = "none" /\ Len(acc.suggs) < n
    THEN {[err |-> o.err, suggs |-> acc.suggs \o Entries(o.images, BUCKET_ID, b),
           cache |-> o.cache, bks |-> acc.bks] :
                o \in RxImageList(acc.cache, n - Len(acc.suggs), refresh)}
    ELSE {acc}

\* The loop over the ordered buckets, from the accumulated state acc.
RECURSIVE SuggestLoop(_, _, _, _)
SuggestLoop(acc, order, sugg_request, refresh) ==
    IF acc.err # "none" \/ order = <<>>
    THEN {acc}
    ELSE LET b == sugg_request.keys[Head(order)]
             n == sugg_request.counts[Head(order)]
         IN  IF n = 0
             THEN SuggestLoop(acc, Tail(order), sugg_request, refresh)
             ELSE UNION {UNION {SuggestLoop(t, Tail(order), sugg_request, refresh) :
                                    t \in TopUp(a, b, n, refresh)} :
                            a \in Answer(acc, b, n, refresh)}

\* _record_outstanding_suggs: one mapping entry per image, the last entry of
\* the list winning.
_record_outstanding_suggs(suggs) ==
    [img \in {suggs[i].image : i \in DOMAIN suggs} |->
        LET last == CHOOSE i \in DOMAIN suggs :
                        /\ suggs[i].image = img
                        /\ \A j \in DOMAIN suggs : suggs[j].image = img => j <= i
        IN  suggs[last].bucket]

\* The requests: randexp is the count under key -1 (None: no such key), keys
\* the bucket keys in the dictionary's order.
SuggestRequests ==
    {rq \in UNION {[randexp : {None} \cup (0 .. MaxCount),
                    keys : {k},
                    counts : [1 .. Len(k) -> 0 .. MaxCount]] :
                        k \in UNION {Arrangements(1 .. MaxBucketId, m) :
                                        m \in 0 .. MaxBucketId}} :
        SumSeq(rq.counts) + (IF rq.randexp = None THEN 0 ELSE rq.randexp)
            <= MaxCount}

suggest ==
    /\ ret = Idle
    /\ moved' = NoMove
    /\ \E sugg_request \in SuggestRequests, refresh_rand_exp \in BOOLEAN :
        LET arg == <<sugg_request, refresh_rand_exp>>
            randexp == IF sugg_request.randexp = None
                       THEN {[err |-> "none", images |-> <<>>, cache |-> rx_suggs]}
                       ELSE RxImageList(rx_suggs, sugg_request.randexp,
                                        refresh_rand_exp)
        IN  \E rx \in randexp :
            IF rx.err # "none"
            THEN /\ rx_suggs' = rx.cache
                 /\ ret' = Call("suggest", arg, <<>>, rx.err)
                 /\ UNCHANGED <<buckets, outstanding_suggs>>
            ELSE IF \E i \in DOMAIN sugg_request.keys :
                        sugg_request.keys[i] \notin BucketIds
            THEN /\ rx_suggs' = rx.cache
                 /\ ret' = Call("suggest", arg, <<>>, "InvalidBucketKey")
                 /\ UNCHANGED <<buckets, outstanding_suggs>>
            ELSE \E end \in SuggestLoop([err |-> "none", suggs |-> <<>>,
                                         cache |-> rx.cache, bks |-> buckets],
                                        SortedByOrdering(sugg_request.keys),
                                        sugg_request, refresh_rand_exp) :
                    LET suggs == end.suggs \o
                                 Entries(rx.images, BUCKET_ID,
                                         RANDOM_EXPLORE_REQUEST)
                    IN  /\ rx_suggs' = end.cache
                        /\ buckets' = end.bks
                        /\ IF end.err # "none"
                           THEN /\ ret' = Call("suggest", arg, <<>>, end.err)
                                /\ UNCHANGED outstanding_suggs
                           ELSE /\ outstanding_suggs' =
                                        _record_outstanding_suggs(suggs)
                                /\ ret' = Call("suggest", arg, suggs, "none")
    /\ UNCHANGED <<next_bucket_id, taken, seen, pile, discard_ff, trained>>

\* ------------------------------------------------------ AIModel.fast_forward
\* The trained buckets as the list _trained_buckets builds: the dictionary's
\* order, which is the order of creation.
TrainedList ==
    CHOOSE t \in Arrangements(_trained_buckets, Cardinality(_trained_buckets)) :
        \A i, j \in DOMAIN t : i < j => t[i] < t[j]

\* n_ff // n_trained_buckets each, the first n_ff % n_trained_buckets one more
n_discards_per_bucket(n_ff, i) ==
    (n_ff \div Cardinality(_trained_buckets))
        + (IF i <= n_ff % Cardinality(_trained_buckets) THEN 1 ELSE 0)

\* The concatenated discard_candidates of the trained buckets from the i-th
\* on; each is a ranking of its own (lowest score first, seen images last).
RECURSIVE FFDiscard(_, _)
FFDiscard(n_ff, i) ==
    IF i > Len(TrainedList) THEN {<<>>}
    ELSE UNION {{c \o rest : rest \in FFDiscard(n_ff, i + 1)} :
                    c \in _top_images(n_discards_per_bucket(n_ff, i))}

\* The model's bound on the fast-forwards awaiting a commit.
StagedWithinBounds(bks, ff) ==
    SumOver([b \in DOMAIN bks |->
                Len(bks[b].outstanding_ff) + Len(bks[b].bad_ff)], DOMAIN bks)
        + Len(ff) <= MaxStaged

FastForwardInputs == (0 .. MaxBucketId) \X (0 .. MaxCount)

\* Mutant of FFError: a bucket without a model is fast-forwarded all the same.
FFErrorModelUnchecked(bucket, n_ff) ==
    IF n_ff <= 0 THEN "InvalidFF"
    ELSE IF bucket = BUCKET_ID THEN "none"
    ELSE IF bucket \notin BucketIds THEN "InvalidBucketKey"
    ELSE "none"

\* What fast_forward raises, and "none" when it goes through.
FFError(bucket, n_ff) ==
    IF n_ff <= 0 THEN "InvalidFF"
    ELSE IF bucket = BUCKET_ID
    THEN IF _trained_buckets = {} THEN "NoTrainedBuckets" ELSE "none"
    ELSE IF bucket \notin BucketIds THEN "InvalidBucketKey"
    ELSE IF ~buckets[bucket].svm_model THEN "BucketNotActive"
    ELSE "none"

fast_forward ==
    /\ ret = Idle
    /\ moved' = NoMove
    /\ \E arg \in FastForwardInputs :
        LET bucket == arg[1]
            n_ff == arg[2]
        IN  IF FFError(bucket, n_ff) # "none"
            THEN /\ ret' = Call("fast_forward", arg, <<>>, FFError(bucket, n_ff))
                 /\ UNCHANGED <<buckets, discard_ff>>
            ELSE IF bucket = BUCKET_ID
            THEN /\ \E ff_discard \in FFDiscard(n_ff, 1) :
                       /\ StagedWithinBounds(buckets, ff_discard)
                       /\ discard_ff' = ff_discard
                 /\ ret' = Call("fast_forward", arg,
                                [i \in DOMAIN TrainedList |->
                                    [bucket |-> TrainedList[i],
                                     n_candidates |->
                                        n_discards_per_bucket(n_ff, i)]],
                                "none")
                 /\ UNCHANGED buckets
            ELSE /\ \E top \in _top_images(n_ff) :
                        LET staged == [buckets EXCEPT
                                          ![bucket].outstanding_ff = top,
                                          ![bucket].bad_ff = <<>>]
                        IN  /\ StagedWithinBounds(staged, discard_ff)
                            /\ buckets' = staged
                 /\ ret' = Call("fast_forward", arg, <<>>, "none")
                 /\ UNCHANGED discard_ff
    /\ UNCHANGED <<next_bucket_id, taken, seen, pile, rx_suggs,
                   outstanding_suggs, trained>>

\* --------------------------------------------------------- AIModel.ff_commit
\* Mutant of BucketFFCommitted: the rejected images are dropped, not fed back.
FFCommitDropsRejected(bk, pl) ==
    LET fed == BucketFeedback(bk, bk.outstanding_ff, <<>>, <<>>, pl)
    IN  IF BucketFeedbackFails(bk, bk.outstanding_ff, <<>>, <<>>, pl)
        THEN fed
        ELSE [fed EXCEPT !.outstanding_ff = <<>>, !.bad_ff = <<>>]

\* Bucket.ff_commit once both seen updates have returned.
BucketFFCommitted(bk, pl) ==
    LET fed == BucketFeedback(bk, bk.outstanding_ff, <<>>, bk.bad_ff, pl)
    IN  IF BucketFeedbackFails(bk, bk.outstanding_ff, <<>>, bk.bad_ff, pl)
        THEN fed
        ELSE [fed EXCEPT !.outstanding_ff = <<>>, !.bad_ff = <<>>]

ff_commit ==
    /\ ret = Idle
    /\ moved' = NoMove
    /\ \E bucket_id \in 0 .. MaxBucketId :
        IF bucket_id = BUCKET_ID
        THEN /\ WithinBounds(buckets, pile \o discard_ff)
             /\ pile' = pile \o discard_ff
             /\ seen' = SeenUpdate(seen, discard_ff)
             /\ IF Exhausted(SeenUpdate(seen, discard_ff))
                THEN /\ ret' = Call("ff_commit", <<bucket_id>>, <<>>,
                                    "DatasetExhausted")
                     /\ UNCHANGED discard_ff
                ELSE /\ ret' = Call("ff_commit", <<bucket_id>>, <<>>, "none")
                     /\ discard_ff' = <<>>
             /\ UNCHANGED <<buckets, trained>>
        ELSE IF bucket_id \notin BucketIds
        THEN /\ ret' = Call("ff_commit", <<bucket_id>>, <<>>, "InvalidBucketKey")
             /\ UNCHANGED <<buckets, seen, pile, discard_ff, trained>>
        ELSE LET bk == buckets[bucket_id]
                 seen_ff == SeenUpdate(seen, bk.outstanding_ff)
                 seen_bad == SeenUpdate(seen_ff, bk.bad_ff)
             IN  /\ UNCHANGED <<pile, discard_ff>>
                 /\ IF Exhausted(seen_ff)
                    THEN /\ seen' = seen_ff
                         /\ ret' = Call("ff_commit", <<bucket_id>>, <<>>,
                                        "DatasetExhausted")
                         /\ UNCHANGED <<buckets, trained>>
                    ELSE IF Exhausted(seen_bad)
                    THEN /\ seen' = seen_bad
                         /\ ret' = Call("ff_commit", <<bucket_id>>, <<>>,
                                        "DatasetExhausted")
                         /\ UNCHANGED <<buckets, trained>>
                    ELSE /\ seen' = seen_bad
                         /\ WithinBounds(
                                [buckets EXCEPT ![bucket_id] =
                                                    BucketFFCommitted(bk, pile)],
                                pile)
                         /\ buckets' = [buckets EXCEPT ![bucket_id] =
                                                    BucketFFCommitted(bk, pile)]
                         /\ trained' =
                                IF EmptyFeedback(bk.outstanding_ff, <<>>,
                                                 bk.bad_ff)
                                THEN {} ELSE {bucket_id}
                         /\ ret' = Call("ff_commit", <<bucket_id>>, <<>>,
                                        IF BucketFeedbackFails(
                                               bk, bk.outstanding_ff, <<>>,
                                               bk.bad_ff, pile)
                                        THEN "TrainValueError" ELSE "none")
    /\ UNCHANGED <<next_bucket_id, taken, rx_suggs, outstanding_suggs>>

\* --------------------------------------------------- AIModel.transfer_images
\* DiscardPile.restore_images from the state st = [pile, ff, seen, err]: an
\* image leaves the pile, or else the outstanding fast-forward (and is marked
\* seen first); the loop stops at the first image that is in neither.
RECURSIVE restore_images(_, _)
restore_images(st, images_to_restore) ==
    IF st.err # "none" \/ images_to_restore = <<>> THEN st
    ELSE LET img == Head(images_to_restore)
         IN  restore_images(
                IF img \in SeqToSet(st.pile)
                THEN [st EXCEPT !.pile = RemoveAt(@, IndexOf(@, img))]
                ELSE IF img \in SeqToSet(st.ff)
                THEN IF Exhausted(SeenUpdate(st.seen, <<img>>))
                     THEN [st EXCEPT !.seen = SeenUpdate(@, <<img>>),
                                     !.err = "DatasetExhausted"]
                     ELSE [st EXCEPT !.seen = SeenUpdate(@, <<img>>),
                                     !.ff = RemoveAt(@, IndexOf(@, img))]
                ELSE [st EXCEPT !.err = "NotInPile"],
                Tail(images_to_restore))

\* The loop of Bucket.remove_images from st = [bucket, err]: an image leaves
\* the bucket's images (and its confidence, when there is one at that index),
\* or else moves from the outstanding to the bad fast-forwards.
RECURSIVE RemoveLoop(_, _)
RemoveLoop(st, images_to_remove) ==
    IF st.err # "none" \/ images_to_remove = <<>> THEN st
    ELSE LET img == Head(images_to_remove)
             bk == st.bucket
         IN  RemoveLoop(
                IF img \in SeqToSet(bk.images)
                THEN LET i == IndexOf(bk.images, img)
                         gone == [bk EXCEPT !.images = RemoveAt(@, i)]
                     IN  IF i > bk.n_img_confidences
                         THEN [bucket |-> gone, err |-> "IndexError"]
                         ELSE [bucket |-> [gone EXCEPT !.n_img_confidences = @ - 1],
                               err |-> "none"]
                ELSE IF img \in SeqToSet(bk.outstanding_ff)
                THEN [bucket |-> [bk EXCEPT
                                    !.bad_ff = @ \o <<img>>,
                                    !.outstanding_ff =
                                        RemoveAt(@, IndexOf(@, img))],
                      err |-> "none"]
                ELSE [bucket |-> bk, err |-> "NotInBucket"],
                Tail(images_to_remove))

\* Bucket.remove_images: the loop, then _train.
remove_images(bk, images_to_remove, pl) ==
    LET st == RemoveLoop([bucket |-> bk, err |-> "none"], images_to_remove)
    IN  IF st.err # "none"
        THEN [bucket |-> st.bucket, trained |-> FALSE, err |-> st.err]
        ELSE IF TrainFails(st.bucket, pl)
        THEN [bucket |-> st.bucket, trained |-> TRUE, err |-> "TrainValueError"]
        ELSE [bucket |-> _train(st.bucket, pl), trained |-> TRUE, err |-> "none"]

TRANSFER_MODES == {"move", "copy"}

TransferInputs ==
    {[images |-> i, bucket_src |-> sr, bucket_dst |-> d, mode |-> m] :
        i \in UNION {Arrangements(Items, k) : k \in 0 .. MaxTransfer},
        sr \in 0 .. MaxBucketId, d \in 0 .. MaxBucketId,
        m \in TRANSFER_MODES \cup {"other"}}

\* The state once the source has let the images go (or was never asked to).
AfterSource(t) ==
    LET same == [bks |-> buckets, pile |-> pile, ff |-> discard_ff,
                 seen |-> seen, trained |-> {}, err |-> "none"]
    IN  IF t.mode # "move" THEN same
        ELSE IF t.bucket_src = BUCKET_ID
        THEN LET r == restore_images([pile |-> pile, ff |-> discard_ff,
                                      seen |-> seen, err |-> "none"], t.images)
             IN  [bks |-> buckets, pile |-> r.pile, ff |-> r.ff,
                  seen |-> r.seen, trained |-> {}, err |-> r.err]
        ELSE IF t.bucket_src \notin BucketIds
        THEN [same EXCEPT !.err = "InvalidBucketKey"]
        ELSE LET r == remove_images(buckets[t.bucket_src], t.images, pile)
             IN  [same EXCEPT !.bks = [buckets EXCEPT ![t.bucket_src] = r.bucket],
                              !.trained = IF r.trained THEN {t.bucket_src}
                                          ELSE {},
                              !.err = r.err]

\* ... and once the destination has taken them.
AfterDestination(t, src) ==
    IF src.err # "none" THEN src
    ELSE IF t.bucket_dst = BUCKET_ID
    THEN [src EXCEPT !.pile = @ \o t.images]
    ELSE IF t.bucket_dst \notin BucketIds
    THEN [src EXCEPT !.err = "InvalidBucketKey"]
    ELSE [src EXCEPT
            !.bks = [@ EXCEPT ![t.bucket_dst] =
                        BucketFeedback(@, <<>>, t.images, <<>>, src.pile)],
            !.trained = IF EmptyFeedback(<<>>, t.images, <<>>)
                        THEN @ ELSE @ \cup {t.bucket_dst},
            !.err = IF BucketFeedbackFails(src.bks[t.bucket_dst], <<>>,
                                           t.images, <<>>, src.pile)
                    THEN "TrainValueError" ELSE "none"]

\* Mutant of TransferError: only the source of a copy is checked.
TransferErrorSourceOnly(t) ==
    IF t.mode \notin TRANSFER_MODES THEN "InvalidTransferMode"
    ELSE IF t.mode = "copy" /\ t.bucket_src = BUCKET_ID THEN "InvalidCopy"
    ELSE "none"

\* What the validation of transfer_images raises, "none" when it passes.
TransferError(t) ==
    IF t.mode \notin TRANSFER_MODES THEN "InvalidTransferMode"
    ELSE IF t.mode = "copy" /\ (t.bucket_src = BUCKET_ID
                                 \/ t.bucket_dst = BUCKET_ID)
    THEN "InvalidCopy"
    ELSE "none"

transfer_images ==
    /\ ret = Idle
    /\ \E t \in TransferInputs :
        IF TransferError(t) # "none"
        THEN /\ ret' = Call("transfer_images", t, <<>>, TransferError(t))
             /\ UNCHANGED <<buckets, pile, discard_ff, seen, trained>>
             /\ moved' = NoMove
        ELSE LET end == AfterDestination(t, AfterSource(t))
             IN  /\ WithinBounds(end.bks, end.pile)
                 /\ buckets' = end.bks
                 /\ pile' = end.pile
                 /\ discard_ff' = end.ff
                 /\ seen' = end.seen
                 /\ trained' = end.trained
                 /\ moved' = IF /\ end.err = "none"
                                /\ t.mode = "move"
                                /\ t.bucket_src # BUCKET_ID
                                /\ t.bucket_dst # BUCKET_ID
                             THEN [made |-> TRUE,
                                   back |->
                                      /\ moved.made
                                      /\ moved.arg.images = t.images
                                      /\ moved.arg.bucket_src = t.bucket_dst
                                      /\ moved.arg.bucket_dst = t.bucket_src,
                                   arg |-> t, bks |-> buckets, seen |-> seen]
                             ELSE NoMove
                 /\ ret' = Call("transfer_images", t, <<>>, end.err)
    /\ UNCHANGED <<next_bucket_id, taken, rx_suggs, outstanding_suggs>>

\* ---------------------------------------------------------------- AIModel()
\* The state __init__ leaves: one bucket (id 1, order 0, active, the first
\* palette colour), an empty discard pile, nothing seen, no suggestions.
Constructed ==
    /\ buckets = [b \in {INIT_BUCKET_ID} |-> NewBucket(TRUE, 0, 0)]
    /\ next_bucket_id = INIT_BUCKET_ID + 1
    /\ taken = [i \in 0 .. (N_COLORS - 1) |-> i = 0]
    /\ seen = {}
    /\ pile = <<>>
    /\ discard_ff = <<>>
    /\ rx_suggs = <<>>
    /\ outstanding_suggs = <<>>
    /\ trained = {}
    /\ moved = NoMove
    /\ calls = 0
    /\ explored = NoExplored
    /\ session = NoRequests

Init == Constructed /\ ret = Call("init", <<>>, <<INIT_BUCKET_ID, TRUE>>, "none")

\* The response is handed back to the caller.
HandBack ==
    /\ ret # Idle
    /\ ret' = Idle
    /\ trained' = {}
    /\ UNCHANGED <<buckets, next_bucket_id, taken>>
    /\ UNCHANGED <<seen, pile, discard_ff, rx_suggs, outstanding_suggs, moved,
                   calls>>

Return == HandBack /\ UNCHANGED aside

\* The bucket lifecycle alone, with room for more buckets than may be active.
\* Deletion is explored where it meets the cap: while more buckets exist than
\* may be active (SpecOrd and Spec explore it everywhere).
CreateCap == create_bucket(MaxBucketIdCap) /\ UNCHANGED aside
DeleteCap ==
    /\ Cardinality(BucketIds) > N_MAX_ACTIVE_BUCKETS
    /\ delete_bucket(MaxBucketIdCap)
    /\ UNCHANGED aside
ToggleCap == toggle_bucket(MaxBucketIdCap) /\ UNCHANGED aside
NextCap == CreateCap \/ DeleteCap \/ ToggleCap \/ Return
SpecCap == Init /\ [][NextCap]_vars

\* The bucket lifecycle alone, with reordering.
CreateOrd == create_bucket(MaxBucketIdOrd) /\ UNCHANGED aside
DeleteOrd == delete_bucket(MaxBucketIdOrd) /\ UNCHANGED aside
SwapOrd == swap_buckets(MaxBucketIdOrd) /\ UNCHANGED aside
ToggleOrd == toggle_bucket(MaxBucketIdOrd) /\ UNCHANGED aside
NextOrd == CreateOrd \/ DeleteOrd \/ SwapOrd \/ ToggleOrd \/ Return
SpecOrd == Init /\ [][NextOrd]_vars

\* The interaction loop: feedback and suggestions over a changing set of
\* buckets, at most MaxRounds calls of suggest.
CreateBucket == create_bucket(MaxBucketId) /\ UNCHANGED aside
DeleteBucket == delete_bucket(MaxBucketId) /\ UNCHANGED aside
SwapBuckets == swap_buckets(MaxBucketId) /\ UNCHANGED aside
Feedback == user_feedback(MaxFeedback) /\ UNCHANGED <<calls, aside>>
Suggest ==
    calls < MaxRounds /\ suggest /\ calls' = calls + 1 /\ UNCHANGED aside
Next ==
    \/ CreateBucket
    \/ DeleteBucket
    \/ SwapBuckets
    \/ Feedback
    \/ Suggest
    \/ Return
Spec == Init /\ [][Next]_vars

\* Feedback of several entries, after at most MaxRoundsTable suggestion rounds.
FeedbackTable == user_feedback(MaxFeedbackTable) /\ UNCHANGED <<calls, aside>>
SuggestTable ==
    calls < MaxRoundsTable /\ suggest /\ calls' = calls + 1 /\ UNCHANGED aside
NextTable ==
    \/ CreateBucket
    \/ DeleteBucket
    \/ FeedbackTable
    \/ SuggestTable
    \/ Return
SpecTable == Init /\ [][NextTable]_vars

\* Fast-forwards and their commits, on top of plain feedback.
FastForward == fast_forward /\ UNCHANGED <<calls, aside>>
FFCommit == ff_commit /\ UNCHANGED <<calls, aside>>
NextFF ==
    \/ CreateBucket
    \/ DeleteBucket
    \/ SwapBuckets
    \/ Feedback
    \/ FastForward
    \/ FFCommit
    \/ Return
SpecFF == Init /\ [][NextFF]_vars

\* Every operation of the session, at most MaxCalls calls that touch items.
FeedbackCall ==
    /\ calls < MaxCalls /\ user_feedback(MaxFeedback) /\ calls' = calls + 1
    /\ UNCHANGED aside
SuggestCall ==
    calls < MaxCalls /\ suggest /\ calls' = calls + 1 /\ UNCHANGED aside
FastForwardCall ==
    calls < MaxCalls /\ fast_forward /\ calls' = calls + 1 /\ UNCHANGED aside
FFCommitCall ==
    calls < MaxCalls /\ ff_commit /\ calls' = calls + 1 /\ UNCHANGED aside
TransferCall ==
    calls < MaxCalls /\ transfer_images /\ calls' = calls + 1 /\ UNCHANGED aside
NextAll ==
    \/ CreateBucket
    \/ DeleteBucket
    \/ FeedbackCall
    \/ SuggestCall
    \/ FastForwardCall
    \/ FFCommitCall
    \/ TransferCall
    \/ Return
SpecAll == Init /\ [][NextAll]_vars

\* The fast-forward workflow of the first bucket: feedback, staging, rejecting
\* (a move out of the bucket) and committing, at most MaxStageCalls calls.
FeedbackStage ==
    /\ calls < MaxStageCalls /\ user_feedback(MaxFeedback) /\ calls' = calls + 1
    /\ UNCHANGED aside
FastForwardStage ==
    /\ calls < MaxStageCalls /\ fast_forward /\ calls' = calls + 1
    /\ UNCHANGED aside
TransferStage ==
    /\ calls < MaxStageCalls /\ transfer_images /\ calls' = calls + 1
    /\ UNCHANGED aside
FFCommitStage ==
    /\ calls < MaxStageCalls /\ ff_commit /\ calls' = calls + 1
    /\ UNCHANGED aside
NextStage ==
    \/ FeedbackStage
    \/ FastForwardStage
    \/ TransferStage
    \/ FFCommitStage
    \/ Return
SpecStage == Init /\ [][NextStage]_vars

\* The dud round: suggestion rounds, refreshing or not, and feedback between
\* them; explored keeps what the last suggest returned for the exploration
\* request until a feedback arrives.
ExplorationOf(suggs) ==
    LET own == SelectSeq(suggs, LAMBDA e : e.key = RANDOM_EXPLORE_REQUEST)
    IN  [i \in DOMAIN own |-> own[i].image]

FeedbackDud ==
    /\ user_feedback(MaxFeedback)
    /\ explored' = NoExplored
    /\ UNCHANGED <<calls, session>>
SuggestDud ==
    /\ calls < MaxRounds /\ suggest /\ calls' = calls + 1
    /\ explored' = IF ret'.err = "none" /\ ret'.arg[1].randexp # None
                   THEN [made |-> TRUE, count |-> ret'.arg[1].randexp,
                         images |-> ExplorationOf(ret'.out)]
                   ELSE NoExplored
    /\ UNCHANGED session
NextDud ==
    \/ CreateBucket
    \/ FeedbackDud
    \/ SuggestDud
    \/ Return
SpecDud == Init /\ [][NextDud]_vars

\* ------------------------------------------------- the session under requests
\* The requests of one session, each served once.  A request arrives with the
\* operation its view calls, takes the session's exclusive lock for its whole
\* duration, runs AnalyticSession's method and lets the lock go.
SessionOps ==
    {"interaction_round", "create_bucket", "delete_bucket", "toggle_bucket",
     "swap_buckets", "fast_forward", "ff_commit", "transfer_images"}

At(r, pc, op) == session.pc[r] = pc /\ session.op[r] = op

Goes(r, pc) == session' = [session EXCEPT !.pc[r] = pc]

Arrive(r) ==
    /\ session.pc[r] = "idle"
    /\ \E op \in SessionOps :
          session' = [session EXCEPT !.pc[r] = "waiting", !.op[r] = op]
    /\ UNCHANGED <<buckets, next_bucket_id, taken, itemVars, ret, explored>>

\* Mutant of Acquire: the session is taken whether or not it is held.
AcquireUnlocked(r) ==
    /\ session.pc[r] = "waiting"
    /\ session' = [session EXCEPT !.lock = r, !.pc[r] = "running"]
    /\ UNCHANGED <<buckets, next_bucket_id, taken, itemVars, ret, explored>>

Acquire(r) ==
    /\ session.pc[r] = "waiting"
    /\ session.lock = 0
    /\ session' = [session EXCEPT !.lock = r, !.pc[r] = "running"]
    /\ UNCHANGED <<buckets, next_bucket_id, taken, itemVars, ret, explored>>

Release(r) ==
    /\ session.pc[r] = "done"
    /\ session.lock = r
    /\ session' = [session EXCEPT !.lock = 0, !.pc[r] = "gone"]
    /\ UNCHANGED <<buckets, next_bucket_id, taken, itemVars, ret, explored>>

active_and_trained_buckets ==
    {b \in BucketIds : buckets[b].active /\ buckets[b].svm_model}

\* The grid request of interaction_round: the exploration key and every
\* active and trained bucket, in the dictionary's order, refreshing.
GridRequest(arg) ==
    /\ arg[1].randexp # None
    /\ SeqToSet(arg[1].keys) = active_and_trained_buckets
    /\ \A i, j \in DOMAIN arg[1].keys : i < j => arg[1].keys[i] < arg[1].keys[j]
    /\ arg[2]

\* interaction_round: the feedback goes to the model; when that raises, the
\* round is over ...
RoundFeedback(r) ==
    /\ At(r, "running", "interaction_round")
    /\ user_feedback(MaxFeedback)
    /\ Goes(r, IF ret'.err = "none" THEN "fed" ELSE "done")
    /\ UNCHANGED <<calls, explored>>

\* ... and else the model is asked for the next grid.
RoundSuggest(r) ==
    /\ At(r, "fed", "interaction_round")
    /\ suggest
    /\ GridRequest(ret'.arg)
    /\ Goes(r, "done")
    /\ UNCHANGED <<calls, explored>>

SessionCreate(r) ==
    /\ At(r, "running", "create_bucket")
    /\ create_bucket(MaxBucketId)
    /\ Goes(r, "done")
    /\ UNCHANGED explored

SessionDelete(r) ==
    /\ At(r, "running", "delete_bucket")
    /\ delete_bucket(MaxBucketId)
    /\ Goes(r, "done")
    /\ UNCHANGED explored

SessionToggle(r) ==
    /\ At(r, "running", "toggle_bucket")
    /\ toggle_bucket(MaxBucketId)
    /\ Goes(r, "done")
    /\ UNCHANGED explored

SessionSwap(r) ==
    /\ At(r, "running", "swap_buckets")
    /\ swap_buckets(MaxBucketId)
    /\ Goes(r, "done")
    /\ UNCHANGED explored

SessionFastForward(r) ==
    /\ At(r, "running", "fast_forward")
    /\ fast_forward
    /\ Goes(r, "done")
    /\ UNCHANGED <<calls, explored>>

SessionFFCommit(r) ==
    /\ At(r, "running", "ff_commit")
    /\ ff_commit
    /\ Goes(r, "done")
    /\ UNCHANGED <<calls, explored>>

SessionTransfer(r) ==
    /\ At(r, "running", "transfer_images")
    /\ transfer_images
    /\ Goes(r, "done")
    /\ UNCHANGED <<calls, explored>>

NextSession ==
    \/ \E r \in Requests : Arrive(r)
    \/ \E r \in Requests : Acquire(r)
    \/ \E r \in Requests : RoundFeedback(r)
    \/ \E r \in Requests : RoundSuggest(r)
    \/ \E r \in Requests : SessionCreate(r)
    \/ \E r \in Requests : SessionDelete(r)
    \/ \E r \in Requests : SessionToggle(r)
    \/ \E r \in Requests : SessionSwap(r)
    \/ \E r \in Requests : SessionFastForward(r)
    \/ \E r \in Requests : SessionFFCommit(r)
    \/ \E r \in Requests : SessionTransfer(r)
    \/ \E r \in Requests : Release(r)
    \/ Return
SpecSession == Init /\ [][NextSession]_vars

\* ------------------------------------------- the active-learning oracle mode
\* Bucket.suggest and Bucket.user_feedback of one bucket under a model
\* configuration whose oracle mode is "al".  st is the bucket with its
\* outstanding_al_queries: [bucket, outstanding_al_queries].
Ascending(S) ==
    CHOOSE t \in Arrangements(S, Cardinality(S)) :
        \A i, j \in DOMAIN t : i < j => t[i] < t[j]

\* The first k images of a ranking that has the images of `first` in some
\* order before those of `last`.
Ranked(k, first, last) ==
    LET k_first == Min(k, Cardinality(first))
    IN  UNION {{a \o b : b \in Arrangements(last, Min(k - k_first,
                                                       Cardinality(last)))} :
                  a \in Arrangements(first, k_first)}

\* Bucket.suggest(n_suggs) of a bucket whose channel confidences are 1.0, so
\* that the roulette gives every slot to the classifier: n_al_queries of the
\* n_suggs slots become queries, the images whose score is closest to 0 (the
\* seen ones, of infinite score, last); they leave the ranking, the rest of
\* the slots take its head.
AlSuggest(st, n_suggs) ==
    LET bk == st.bucket
        held == SeqToSet(bk.images) \cup SeqToSet(bk.negatives)
    IN  UNION {UNION {
            {[bucket |-> [bk EXCEPT !.outstanding_suggs =
                             [t \in SuggTypes |->
                                 IF t = EXPSEARCH_SUGG_SVM THEN svm ELSE <<>>]],
              outstanding_al_queries |-> al,
              images |-> svm \o al] :
                svm \in Ranked(n_suggs - n_al_queries,
                               (Items \ held) \ SeqToSet(al),
                               held \ SeqToSet(al))} :
            al \in Ranked(n_al_queries, Items \ held, held)} :
            n_al_queries \in 0 .. n_suggs}

\* suggs without, and with only, the responses to the outstanding queries
NoAlResp(suggs, outstanding_al_queries) ==
    SelectSeq(suggs, LAMBDA x : x \notin SeqToSet(outstanding_al_queries))

AlResp(suggs, outstanding_al_queries) ==
    SelectSeq(suggs, LAMBDA x : x \in SeqToSet(outstanding_al_queries))

\* Mutant of OracleAl: a good answer to a query stays a good suggestion.
OracleAlKeepsGood(st, good_suggs, neutral_assignments, bad_suggs) ==
    [bucket |-> [st.bucket EXCEPT
                    !.negatives = @ \o AlResp(bad_suggs,
                                              st.outstanding_al_queries)],
     good_suggs |-> good_suggs,
     neutral_assignments |-> neutral_assignments,
     bad_suggs |-> NoAlResp(bad_suggs, st.outstanding_al_queries)]

\* if self.oracle["mode"] == "al": the good answers to queries become
\* neutral assignments, the bad ones go to the negatives and leave bad_suggs.
OracleAl(st, good_suggs, neutral_assignments, bad_suggs) ==
    [bucket |-> [st.bucket EXCEPT
                    !.negatives = @ \o AlResp(bad_suggs,
                                              st.outstanding_al_queries)],
     good_suggs |-> NoAlResp(good_suggs, st.outstanding_al_queries),
     neutral_assignments |->
        neutral_assignments \o AlResp(good_suggs, st.outstanding_al_queries),
     bad_suggs |-> NoAlResp(bad_suggs, st.outstanding_al_queries)]

\* Bucket.user_feedback in that mode: the state afterwards and what it raised.
AlFeedback(st, good_suggs, neutral_assignments, bad_suggs, pl) ==
    IF EmptyFeedback(good_suggs, neutral_assignments, bad_suggs)
    THEN [bucket |-> st.bucket,
          outstanding_al_queries |-> st.outstanding_al_queries,
          err |-> "none"]
    ELSE LET o == OracleAl(st, good_suggs, neutral_assignments, bad_suggs)
             fed == FeedbackApplied(o.bucket, o.good_suggs,
                                    o.neutral_assignments, o.bad_suggs)
         IN  [bucket |-> IF TrainFails(fed, pl) THEN fed ELSE _train(fed, pl),
              outstanding_al_queries |-> <<>>,
              err |-> IF TrainFails(fed, pl) THEN "TrainValueError" ELSE "none"]

\* The feedback a bucket can be handed: good and bad are images it suggested
\* or asked about, neutral ones are others, and no image comes twice.
AlFeedbackInputs(st) ==
    LET own == SeqToSet(st.bucket.outstanding_suggs[EXPSEARCH_SUGG_SVM])
                  \cup SeqToSet(st.outstanding_al_queries)
    IN  {[good |-> Ascending(g), neutral |-> Ascending(n), bad |-> Ascending(b)] :
            g \in SUBSET own, b \in SUBSET own, n \in SUBSET (Items \ own)}
        \cap {f \in [good : Seq(Items), neutral : Seq(Items), bad : Seq(Items)] :
                 SeqToSet(f.good) \cap SeqToSet(f.bad) = {}}

\* A bucket trained on its first image, with a trained model: the state
\* after the first feedback of a session.
Answered ==
    /\ Constructed
    /\ ret \in {Call("user_feedback", <<>>,
                      [bucket |-> [NewBucket(TRUE, 0, 0) EXCEPT
                                      !.images = <<m>>,
                                      !.svm_model = TRUE,
                                      !.n_img_confidences = 1],
                       outstanding_al_queries |-> <<>>],
                      "none") : m \in Items}

OracleSuggest ==
    /\ ret.op \in {"user_feedback", "Bucket.user_feedback"}
    /\ ret.err = "none"
    /\ calls < MaxOracleRounds
    /\ calls' = calls + 1
    /\ \E n_suggs \in 1 .. MaxCount :
        \E o \in AlSuggest(ret.out, n_suggs) :
            ret' = Call("Bucket.suggest", <<n_suggs>>,
                        [bucket |-> o.bucket,
                         outstanding_al_queries |-> o.outstanding_al_queries],
                        "none")
    /\ UNCHANGED <<buckets, next_bucket_id, taken, seen, pile, discard_ff,
                   rx_suggs, outstanding_suggs, trained, moved, aside>>

OracleFeedback ==
    /\ ret.op = "Bucket.suggest"
    /\ \E f \in AlFeedbackInputs(ret.out) :
        LET r == AlFeedback(ret.out, f.good, f.neutral, f.bad, pile)
        IN  /\ Len(r.bucket.images) <= MaxOracleList
            /\ ret' = Call("Bucket.user_feedback", <<ret.out, f>>,
                           [bucket |-> r.bucket,
                            outstanding_al_queries |-> r.outstanding_al_queries],
                           r.err)
    /\ UNCHANGED <<buckets, next_bucket_id, taken>>
    /\ UNCHANGED <<itemVars, aside>>

NextOracle == OracleSuggest \/ OracleFeedback
SpecOracle == Answered /\ [][NextOracle]_vars

\* ------------------------------------------------- Bucket._train alone
\* random.sample(s, n): n entries of the list s, of distinct positions.
Sample(s, n) ==
    {[i \in 1 .. n |-> s[p[i]]] : p \in Arrangements(DOMAIN s, n)}

Repeat(x, n) == [i \in 1 .. n |-> x]

\* The training rows and the label vector _train can hand to the fit, or the
\* ValueError of features.get: the positives, the bucket's negatives, then,
\* when these are fewer than twice the positives, a sample of the discard
\* pile or (except ValueError) the whole pile and n_negs_rand_coll_img rows
\* sampled outside train_idx.
TrainingSets(bk, pl) ==
    LET n_positives == Len(bk.images)
        n_own == Len(bk.negatives)
        n_random_negs == 2 * n_positives - n_own
        own == bk.images \o bk.negatives
        n_negatives == IF n_own < 2 * n_positives THEN 2 * n_positives
                       ELSE n_own
        n_fill == n_negs_rand_coll_img(bk, pl)
        padded == IF n_own >= 2 * n_positives THEN {own}
                  ELSE IF Len(pl) >= n_random_negs
                       THEN {own \o d : d \in Sample(pl, n_random_negs)}
                       ELSE {own \o pl}
        labels == Repeat(1, n_positives) \o Repeat(-1, n_negatives)
    IN  IF n_positives = 0
        THEN {[train_idx |-> <<>>, labels |-> <<>>, err |-> "none"]}
        ELSE UNION {
            LET random_candidates == Items \ SeqToSet(idx)
            IN  IF n_fill > Cardinality(random_candidates)
                THEN {[train_idx |-> idx, labels |-> <<>>,
                       err |-> "TrainValueError"]}
                ELSE {[train_idx |-> idx \o f, labels |-> labels,
                       err |-> "none"] :
                         f \in Arrangements(random_candidates, n_fill)} :
            idx \in padded}

\* A bucket holding images and negatives, and a discard pile, as user
\* feedback and transfers leave them just before the retrain: no image
\* twice in a list, no image both member and negative or discarded.
TrainInputs ==
    UNION {UNION {
        {[bucket |-> [NewBucket(TRUE, 0, 0) EXCEPT !.images = images,
                                                   !.negatives = negatives],
          pile |-> pl] :
            pl \in UNION {Arrangements(Items \ SeqToSet(images), k) :
                              k \in 0 .. MaxList}} :
        negatives \in UNION {Arrangements(Items \ SeqToSet(images), k) :
                                 k \in 0 .. MaxList}} :
        images \in UNION {Arrangements(Items, k) : k \in 0 .. MaxList}}

Fed ==
    /\ Constructed
    /\ ret \in {Call("Bucket", <<>>, i, "none") : i \in TrainInputs}

Train ==
    /\ ret.op = "Bucket"
    /\ \E r \in TrainingSets(ret.out.bucket, ret.out.pile) :
          ret' = Call("_train", ret.out, r, r.err)
    /\ UNCHANGED <<buckets, next_bucket_id, taken>>
    /\ UNCHANGED <<itemVars, aside>>

NextTrain == Train
SpecTrain == Fed /\ [][NextTrain]_vars

\* Bucket._bucket_image_confidences alone.  The model has been fitted and has scored the bucket's images ...
Scored ==
    /\ Constructed
    /\ ret \in {Call("decision_function", <<>>, s, "none") : s \in ScoreLists}

\* ... and _train goes on to the confidences.
BucketImageConfidences ==
    /\ ret.op = "decision_function"
    /\ LET r == _bucket_image_confidences(ret.out)
       IN  ret' = Call("_bucket_image_confidences", ret.out, r, r.err)
    /\ UNCHANGED <<buckets, next_bucket_id, taken>>
    /\ UNCHANGED <<itemVars, aside>>

SpecConf == Scored /\ [][BucketImageConfidences]_vars

\* -------------------------------------------------- CollectionIndex.distances
\* The index artifact: index[img][s] is the centroid of image img in
\* subquantizer s, out of MaxK centroids, and distance_matrix[s][a][b] the
\* distance of centroids a and b of subquantizer s (symmetric, zero between a
\* centroid and itself, one of 1 .. MaxDist otherwise).
Subquantizers == 1 .. NSubmat

Centroids == 0 .. (MaxK - 1)

DistanceMatrices ==
    {[s \in Subquantizers |->
        [a \in Centroids |-> [b \in Centroids |-> IF a = b THEN 0 ELSE d[s]]]] :
            d \in [Subquantizers -> 1 .. MaxDist]}

Artifacts ==
    [index : [Items -> [Subquantizers -> Centroids]],
     distance_matrix : DistanceMatrices]

\* The lists of image ids a caller can ask about, repeats allowed.
Queries == UNION {[1 .. k -> Items] : k \in 0 .. MaxQuery}

\* Mutant of SumSubmat: the loop starts at the second subquantizer.
RECURSIVE SumFromSecond(_, _, _, _)
SumFromSecond(artifact, a, b, s) ==
    IF s <= 1 THEN 0
    ELSE artifact.distance_matrix[s][artifact.index[a][s]][artifact.index[b][s]]
            + SumFromSecond(artifact, a, b, s - 1)

RECURSIVE SumSubmat(_, _, _, _)
SumSubmat(artifact, a, b, s) ==
    IF s = 0 THEN 0
    ELSE artifact.distance_matrix[s][artifact.index[a][s]][artifact.index[b][s]]
            + SumSubmat(artifact, a, b, s - 1)

\* distances(img1, img2): only an empty img1 is refused; an empty img2 gives
\* rows without columns.
distances(artifact, img1, img2) ==
    IF Len(img1) = 0
    THEN [err |-> "EmptyQuery", distances |-> <<>>, artifact |-> artifact]
    ELSE [err |-> "none",
          distances |->
              [i \in 1 .. Len(img1) |->
                  [j \in 1 .. Len(img2) |->
                      SumSubmat(artifact, img1[i], img2[j], NSubmat)]],
          artifact |-> artifact]

\* index[img, s]: the centroids of the images of a list in subquantizer s
Codes(index, img, s) == [i \in 1 .. Len(img) |-> index[img[i]][s]]

\* m[rows][:, cols]: the rows of a matrix picked by one list of centroids,
\* then the columns picked by another.
Submatrix(m, rows, cols) ==
    [i \in 1 .. Len(rows) |-> [j \in 1 .. Len(cols) |-> m[rows[i]][cols[j]]]]

\* distances += ...
MatrixSum(x, y) ==
    [i \in DOMAIN x |-> [j \in DOMAIN x[i] |-> x[i][j] + y[i][j]]]

\* for s in range(distance_matrix.shape[0]), from subquantizer s on
RECURSIVE DistMatLoop(_, _, _, _, _, _)
DistMatLoop(acc, s, img1, img2, distance_matrix, index) ==
    IF s > Cardinality(DOMAIN distance_matrix) THEN acc
    ELSE DistMatLoop(
            MatrixSum(acc, Submatrix(distance_matrix[s], Codes(index, img1, s),
                                     Codes(index, img2, s))),
            s + 1, img1, img2, distance_matrix, index)

\* _dist_mat(img1, img2, distance_matrix, index), the class-level distances
_dist_mat(img1, img2, distance_matrix, index) ==
    IF Len(img1) = 0
    THEN [err |-> "EmptyQuery", distances |-> <<>>]
    ELSE [err |-> "none",
          distances |->
              DistMatLoop([i \in 1 .. Len(img1) |-> [j \in 1 .. Len(img2) |-> 0]],
                          1, img1, img2, distance_matrix, index)]

\* CollectionIndex.distances alone: the artifact has been loaded ...
Loaded ==
    /\ Constructed
    /\ ret \in {Call("CollectionIndex", <<>>, a, "none") : a \in Artifacts}

\* ... and is asked for the distances between two lists of images.
Distances ==
    /\ ret.op = "CollectionIndex"
    /\ \E img1 \in Queries, img2 \in Queries :
          LET r == distances(ret.out, img1, img2)
          IN  ret' = Call("distances", <<img1, img2, ret.out>>, r, r.err)
    /\ UNCHANGED <<buckets, next_bucket_id, taken>>
    /\ UNCHANGED <<itemVars, aside>>

\* ... or its tables are handed to the class-level _dist_mat.
DistMat ==
    /\ ret.op = "CollectionIndex"
    /\ \E img1 \in Queries, img2 \in Queries :
          LET r == _dist_mat(img1, img2, ret.out.distance_matrix, ret.out.index)
          IN  ret' = Call("_dist_mat", <<img1, img2, ret.out>>, r, r.err)
    /\ UNCHANGED <<buckets, next_bucket_id, taken>>
    /\ UNCHANGED <<itemVars, aside>>

NextIndex == Distances \/ DistMat
SpecIndex == Loaded /\ [][NextIndex]_vars

\* ------------------------------------------------------------- properties
\* The classification table: the bins <<bucket, bin>> of an entry assigned to
\* A whose image the outstanding suggestions record for S.
C1_Expected(A, S) ==
    IF A = BUCKET_ID
    THEN IF S = None \/ S = BUCKET_ID THEN {} ELSE {<<S, "bad">>}
    ELSE IF S = None \/ S = BUCKET_ID THEN {<<A, "neutral">>}
    ELSE IF S = A THEN {<<A, "good">>}
    ELSE {<<A, "neutral">>, <<S, "bad">>}

C1_Recorded(image) ==
    IF image \in DOMAIN outstanding_suggs THEN outstanding_suggs[image] ELSE None

C1_Images(fb, b, bins) ==
    {fb[i].image : i \in {j \in DOMAIN fb :
        /\ fb[j].assigned # None
        /\ \E bin \in bins :
              <<b, bin>> \in C1_Expected(fb[j].assigned, C1_Recorded(fb[j].image))}}

\* The bins user_feedback hands to the buckets, the discarded and the seen
\* list, whenever the call gets past its bucket lookups.
C1_Bins ==
    /\ ret.err # "BUG"
    /\ (ret.op = "user_feedback" /\ ret.err # "KeyError") =>
         /\ \A b \in BucketIds : \A bin \in {"good", "neutral", "bad"} :
               SeqToSet(ret.out[1][b][bin]) = C1_Images(ret.arg, b, {bin})
         /\ SeqToSet(ret.out[2]) =
               {ret.arg[i].image : i \in {j \in DOMAIN ret.arg :
                                              ret.arg[j].assigned = BUCKET_ID}}
         /\ SeqToSet(ret.out[3]) =
               {ret.arg[i].image : i \in {j \in DOMAIN ret.arg :
                                              ret.arg[j].assigned # None}}

\* What a call of user_feedback does to the buckets, the pile and the seen set.
C1_Step ==
    /\ (ret'.op = "user_feedback" /\ ret'.err = "none") =>
         /\ \A b \in BucketIds :
               /\ SeqToSet(buckets'[b].images) =
                     SeqToSet(buckets[b].images)
                        \cup C1_Images(ret'.arg, b, {"good", "neutral"})
               /\ SeqToSet(buckets'[b].negatives) =
                     SeqToSet(buckets[b].negatives)
                        \cup C1_Images(ret'.arg, b, {"bad"})
               /\ buckets'[b].n_good_suggs =
                     buckets[b].n_good_suggs
                        + Cardinality(C1_Images(ret'.arg, b, {"good"}))
         /\ SeqToSet(pile') =
               SeqToSet(pile)
                  \cup {ret'.arg[i].image : i \in {j \in DOMAIN ret'.arg :
                                              ret'.arg[j].assigned = BUCKET_ID}}
         /\ seen' =
               seen \cup {ret'.arg[i].image : i \in {j \in DOMAIN ret'.arg :
                                              ret'.arg[j].assigned # None}}
    /\ (/\ ret'.op = "user_feedback"
        /\ \A i \in DOMAIN ret'.arg : ret'.arg[i].assigned = None) =>
         UNCHANGED <<buckets, pile, seen>>

\* C1: user_feedback sorts every non-null entry (item, A), with S the bucket
\* the outstanding suggestions record for the item (none when absent or an
\* exploration item), by the table: discard/none - discarded only;
\* discard/B - discarded and bad for B; C/none - neutral for C; C/C - good for
\* C; C/B - neutral for C and bad for B.  Null entries reach no bin and a call
\* with only null entries changes no bucket, nor the pile, nor the seen set;
\* the "[BUG]" branch is never taken.
C1_Classification == []C1_Bins /\ [][C1_Step]_vars

\* C1 witness: a successful call with a null entry next to an entry that
\* moves an item suggested for one bucket into another.
C1_Witness ==
    /\ ret.op = "user_feedback"
    /\ ret.err = "none"
    /\ \E i, j \in DOMAIN ret.arg :
          /\ ret.arg[i].assigned = None
          /\ ret.arg[j].assigned \in BucketIds
          /\ C1_Recorded(ret.arg[j].image) \in BucketIds \ {ret.arg[j].assigned}
          /\ ret.arg[j].image \in SeqToSet(buckets[ret.arg[j].assigned].images)
          /\ ret.arg[j].image \in
                SeqToSet(buckets[C1_Recorded(ret.arg[j].image)].negatives)

\* C2: suggest never returns an item that is in the seen set, whatever the
\* channel it comes from, for refresh_rand_exp true or false and for every
\* requested count.  seen is compared as the call found it: the call itself
\* adds nothing to it.
C2_Step ==
    (ret'.op = "suggest" /\ ret'.err = "none") =>
        \A i \in DOMAIN ret'.out : ret'.out[i].image \notin seen

C2_NoRepeats == [][C2_Step]_vars

\* C3: the list suggest returns is, block after block, the suggestions of the
\* requested buckets in ascending display order, whatever the order of the
\* keys in the request and whatever swaps and deletions came before; the
\* exploration suggestions come last and no two blocks interleave.
C3_Blocks ==
    (ret.op = "suggest" /\ ret.err = "none") =>
        \A i, j \in DOMAIN ret.out :
            i < j =>
                \/ ret.out[j].key = RANDOM_EXPLORE_REQUEST
                \/ /\ ret.out[i].key # RANDOM_EXPLORE_REQUEST
                   /\ buckets[ret.out[i].key].ordering
                         <= buckets[ret.out[j].key].ordering

\* C3 witness: a request naming bucket 1 before bucket 2 is answered with
\* bucket 2's block first, bucket 2 being displayed before bucket 1.
C3_Witness ==
    /\ ret.op = "suggest"
    /\ ret.err = "none"
    /\ ret.arg[1].keys = <<1, 2>>
    /\ Len(ret.out) = 2
    /\ ret.out[1].key = 2
    /\ ret.out[2].key = 1
    /\ buckets[2].ordering < buckets[1].ordering

\* C4: after a successful suggest the outstanding suggestions hold exactly the
\* items of the returned list, each mapped to the bucket of its entry, and
\* nothing of an earlier round; the mapping is empty after construction,
\* user_feedback leaves it alone and a failing suggest leaves it whole.
C4_Recorded ==
    /\ ret.op = "init" => outstanding_suggs = <<>>
    /\ (ret.op = "suggest" /\ ret.err = "none") =>
         /\ DOMAIN outstanding_suggs = {ret.out[i].image : i \in DOMAIN ret.out}
         /\ \A i \in DOMAIN ret.out :
               outstanding_suggs[ret.out[i].image] = ret.out[i].bucket

C4_Step ==
    /\ ret'.op = "user_feedback" => UNCHANGED outstanding_suggs
    /\ (ret'.op = "suggest" /\ ret'.err # "none") => UNCHANGED outstanding_suggs

C4_Mapping == []C4_Recorded /\ [][C4_Step]_vars

\* C5: in the list suggest returns, every requested bucket has exactly as
\* many entries as were requested of it, the exploration request as well, so
\* the list is as long as the sum of the counts; the entries of a bucket
\* without a model are the randomized explorer's (bucket 0), those of a
\* bucket with a model are its own.
C5_Counts ==
    (ret.op = "suggest" /\ ret.err = "none") =>
        LET rq == ret.arg[1]
            n_randexp == IF rq.randexp = None THEN 0 ELSE rq.randexp
        IN  /\ \A k \in DOMAIN rq.keys :
                  Cardinality({i \in DOMAIN ret.out : ret.out[i].key = rq.keys[k]})
                      = rq.counts[k]
            /\ Cardinality({i \in DOMAIN ret.out :
                                ret.out[i].key = RANDOM_EXPLORE_REQUEST})
                  = n_randexp
            /\ Len(ret.out) = SumSeq(rq.counts) + n_randexp
            /\ \A i \in DOMAIN ret.out :
                  ret.out[i].key # RANDOM_EXPLORE_REQUEST =>
                      ret.out[i].bucket =
                          IF buckets[ret.out[i].key].svm_model
                          THEN ret.out[i].key ELSE BUCKET_ID

\* C5 witness: one request answered by a bucket with a model and by the
\* randomized explorer standing in for a bucket without one.
C5_Witness ==
    /\ ret.op = "suggest"
    /\ ret.err = "none"
    /\ \E i, j \in DOMAIN ret.out :
          /\ ret.out[i].key \in BucketIds
          /\ ret.out[j].key \in BucketIds
          /\ buckets[ret.out[i].key].svm_model
          /\ ret.out[i].bucket = ret.out[i].key
          /\ ~buckets[ret.out[j].key].svm_model
          /\ ret.out[j].bucket = BUCKET_ID

\* C11: SeenImages.update raises DatasetExhausted once, on the call that
\* brings the seen set up to the size of the collection; a call that finds
\* the set already that large does not raise it again.  (In user_feedback,
\* ff_commit and transfer_images the error can only come out of update.)
C11_Step ==
    (/\ ret'.op \in {"user_feedback", "ff_commit", "transfer_images"}
     /\ ret'.err = "DatasetExhausted") =>
        /\ Cardinality(seen) < NItems
        /\ Cardinality(seen') = NItems

C11_RaisedOnce == [][C11_Step]_vars

\* C12: once suggest has returned, every item of the returned list is in the
\* seen set: being shown as a suggestion marks an item seen.
C12_ShownIsSeen ==
    (ret.op = "suggest" /\ ret.err = "none") =>
        {ret.out[i].image : i \in DOMAIN ret.out} \subseteq seen

\* C13: Bucket.user_feedback with three empty lists changes nothing of the
\* bucket and does not retrain it, so a bucket that is handed no good,
\* neutral or bad item by AIModel.user_feedback is left as it was.
C13_EmptyIsNoOp ==
    \A b \in BucketIds :
        /\ ~BucketFeedbackFails(buckets[b], <<>>, <<>>, <<>>, pile)
        /\ BucketFeedback(buckets[b], <<>>, <<>>, <<>>, pile) = buckets[b]

C13_Step ==
    (ret'.op = "user_feedback" /\ ret'.err \notin {"KeyError", "BUG"}) =>
        \A b \in BucketIds :
            (/\ ret'.out[1][b].good = <<>>
             /\ ret'.out[1][b].neutral = <<>>
             /\ ret'.out[1][b].bad = <<>>) =>
                /\ buckets'[b] = buckets[b]
                /\ b \notin trained'

C13_EmptyFeedback == []C13_EmptyIsNoOp /\ [][C13_Step]_vars

\* C13 witness: a feedback round retrains one bucket and hands nothing to
\* another that has a model and suggestions outstanding.
C13_Witness ==
    /\ ret.op = "user_feedback"
    /\ ret.err = "none"
    /\ \E b, c \in BucketIds :
          /\ ret.out[1][b].good = <<>>
          /\ ret.out[1][b].neutral = <<>>
          /\ ret.out[1][b].bad = <<>>
          /\ buckets[b].svm_model
          /\ \E st \in SuggTypes : Len(buckets[b].outstanding_suggs[st]) > 0
          /\ c \in trained

\* C14: a fast-forward of the discard pile by n with T >= 1 trained buckets
\* asks every trained bucket for n \div T discard candidates and the first
\* n % T trained buckets in display order for one more, whatever creations,
\* deletions and swaps came before.
C14_DisplayRank(b) ==
    Cardinality({c \in _trained_buckets :
                    buckets[c].ordering < buckets[b].ordering})

C14_Split ==
    (ret.op = "fast_forward" /\ ret.err = "none" /\ ret.arg[1] = BUCKET_ID) =>
        LET n == ret.arg[2]
            T == Cardinality(_trained_buckets)
        IN  /\ T >= 1
            /\ {ret.out[i].bucket : i \in DOMAIN ret.out} = _trained_buckets
            /\ \A i \in DOMAIN ret.out :
                  ret.out[i].n_candidates =
                      (n \div T)
                        + (IF C14_DisplayRank(ret.out[i].bucket) < n % T
                           THEN 1 ELSE 0)

\* C15: a fast_forward that fails - the count not positive (InvalidFF), the
\* bucket unknown (InvalidBucketKey), the bucket without a model
\* (BucketNotActive), the discard pile with no trained bucket
\* (NoTrainedBuckets) - fails with that error and leaves the staged items and
\* rejects of every bucket and of the discard pile, and the seen set, as they
\* were.
C15_Step ==
    ret'.op = "fast_forward" =>
        LET bucket == ret'.arg[1]
            n_ff == ret'.arg[2]
        IN  /\ n_ff <= 0 => ret'.err = "InvalidFF"
            /\ (n_ff > 0 /\ bucket = BUCKET_ID /\ _trained_buckets = {}) =>
                    ret'.err = "NoTrainedBuckets"
            /\ (n_ff > 0 /\ bucket # BUCKET_ID /\ bucket \notin BucketIds) =>
                    ret'.err = "InvalidBucketKey"
            /\ (n_ff > 0 /\ bucket \in BucketIds /\ ~buckets[bucket].svm_model) =>
                    ret'.err = "BucketNotActive"
            /\ ret'.err # "none" => UNCHANGED <<buckets, discard_ff, pile, seen>>

C15_FailedFFKeepsStaging == [][C15_Step]_vars

\* C15 witness: a fast-forward refused for want of a model while another
\* bucket and the discard pile hold fast-forwards awaiting their commit.
C15_Witness ==
    /\ ret.op = "fast_forward"
    /\ ret.err = "BucketNotActive"
    /\ discard_ff # <<>>
    /\ \E b \in BucketIds : buckets[b].outstanding_ff # <<>>

\* C16: transfer_images in mode "copy" from or to the discard pile fails as
\* an invalid copy, and in a mode that is neither "move" nor "copy" as an
\* invalid transfer mode; neither call changes a bucket, the discard pile or
\* the seen set.
C16_Step ==
    ret'.op = "transfer_images" =>
        /\ ret'.arg.mode \notin TRANSFER_MODES =>
                ret'.err = "InvalidTransferMode"
        /\ (/\ ret'.arg.mode = "copy"
            /\ (ret'.arg.bucket_src = BUCKET_ID
                  \/ ret'.arg.bucket_dst = BUCKET_ID)) =>
                ret'.err = "InvalidCopy"
        /\ ret'.err \in {"InvalidTransferMode", "InvalidCopy"} =>
                UNCHANGED <<buckets, pile, discard_ff, seen>>

C16_InvalidTransfers == [][C16_Step]_vars

\* C16 witness: a copy into the discard pile of an image its source bucket
\* holds is refused.
C16_Witness ==
    /\ ret.op = "transfer_images"
    /\ ret.err = "InvalidCopy"
    /\ ret.arg.bucket_dst = BUCKET_ID
    /\ ret.arg.bucket_src \in BucketIds
    /\ ret.arg.images # <<>>
    /\ SeqToSet(ret.arg.images) \subseteq
            SeqToSet(buckets[ret.arg.bucket_src].images)

\* C17: an item X that bucket A holds exactly once and bucket B does not
\* hold, moved from A to B and then back from B to A, is held by A exactly
\* once and not by B, the seen set is as it was, and B has no model when X
\* was all it held.
C17_Count(x, images) == Cardinality({i \in DOMAIN images : images[i] = x})

C17_Step ==
    (/\ moved.made
     /\ ret'.op = "transfer_images"
     /\ ret'.err = "none"
     /\ ret'.arg.mode = "move"
     /\ Len(moved.arg.images) = 1
     /\ ret'.arg.images = moved.arg.images
     /\ ret'.arg.bucket_src = moved.arg.bucket_dst
     /\ ret'.arg.bucket_dst = moved.arg.bucket_src
     /\ C17_Count(moved.arg.images[1],
                  moved.bks[moved.arg.bucket_src].images) = 1
     /\ C17_Count(moved.arg.images[1],
                  moved.bks[moved.arg.bucket_dst].images) = 0) =>
        LET X == moved.arg.images[1]
            A == moved.arg.bucket_src
            B == moved.arg.bucket_dst
        IN  /\ C17_Count(X, buckets'[A].images) = 1
            /\ C17_Count(X, buckets'[B].images) = 0
            /\ seen' = moved.seen
            /\ moved.bks[B].images = <<>> => ~buckets'[B].svm_model

C17_MoveRoundTrip == [][C17_Step]_vars

\* C17 witness: the move back has just been made; the item is all its
\* bucket holds again and the bucket it visited holds nothing and has no
\* model.
C17_Witness ==
    /\ ret.op = "transfer_images"
    /\ ret.err = "none"
    /\ moved.made
    /\ moved.back
    /\ moved.arg = ret.arg
    /\ Len(ret.arg.images) = 1
    /\ ret.arg.bucket_src # ret.arg.bucket_dst
    /\ moved.bks[ret.arg.bucket_src].images = ret.arg.images
    /\ moved.bks[ret.arg.bucket_src].svm_model
    /\ buckets[ret.arg.bucket_dst].images = ret.arg.images
    /\ buckets[ret.arg.bucket_src].images = <<>>
    /\ ~buckets[ret.arg.bucket_src].svm_model
    /\ seen = moved.seen

\* C18: a transfer_images that fails because its source or its destination
\* bucket does not exist, or because a listed item is neither held nor staged
\* by the source, changes nothing: the buckets, the discard pile and its
\* staging and the seen set are as before the call.
C18_Step ==
    (/\ ret'.op = "transfer_images"
     /\ ret'.err \in {"InvalidBucketKey", "NotInBucket", "NotInPile"}) =>
        UNCHANGED <<buckets, pile, discard_ff, seen>>

C18_FailedTransferIsAtomic == [][C18_Step]_vars

\* C19: a call that names a bucket which does not exist fails as an invalid
\* bucket key and in no other way: fast_forward, ff_commit and user_feedback,
\* the last both when the assigned bucket does not exist and when the bucket
\* the outstanding suggestions record for the item has been deleted; no call
\* lets a KeyError out.
C19_Known == {None, BUCKET_ID} \cup BucketIds

C19_Step ==
    /\ ret'.err # "KeyError"
    /\ (/\ ret'.op = "user_feedback"
        /\ \E i \in DOMAIN ret'.arg :
              /\ ret'.arg[i].assigned # None
              /\ \/ ret'.arg[i].assigned \notin C19_Known
                 \/ SuggestedBucket(ret'.arg[i].image) \notin C19_Known) =>
            ret'.err = "InvalidBucketKey"
    /\ (ret'.op = "ff_commit" /\ ret'.arg[1] \notin C19_Known) =>
            ret'.err = "InvalidBucketKey"
    /\ (/\ ret'.op = "fast_forward"
        /\ ret'.arg[2] > 0
        /\ ret'.arg[1] \notin C19_Known) =>
            ret'.err = "InvalidBucketKey"

C19_UnknownBucket == [][C19_Step]_vars

\* C20: in every state no item is at once held by a bucket and in the
\* discard pile.
C20_RelevantOrDiscarded ==
    \A b \in BucketIds :
        SeqToSet(buckets[b].images) \cap SeqToSet(pile) = {}

\* clamp(score / best-score, 0, 1), where the quotient exists.
C21_Clamp(s, best) ==
    LET q == IF best > 0 THEN Fraction(s, best) ELSE Fraction(0 - s, 0 - best)
    IN  IF q.num <= 0 THEN Fraction(0, 1)
        ELSE IF q.num >= q.den THEN Fraction(1, 1)
        ELSE q

\* C21: after the confidences of a bucket with at least one image have been
\* recomputed, every image's confidence is a number of [0, 1], it is
\* clamp(score / best score, 0, 1), and an image with the best score has
\* confidence exactly 1, whatever the sign of the best score.
C21_ConfidenceBounds ==
    ret.op = "_bucket_image_confidences" =>
        LET scores == ret.arg
            best == ret.out.best_img_svm_score
            conf == ret.out.img_confidences
        IN  /\ ret.err = "none"
            /\ DOMAIN conf = DOMAIN scores
            /\ \A i \in DOMAIN scores :
                /\ conf[i].kind = "num"
                /\ 0 <= conf[i].num /\ conf[i].num <= conf[i].den
                /\ best # 0 =>
                      conf[i].num * C21_Clamp(scores[i], best).den
                          = C21_Clamp(scores[i], best).num * conf[i].den
                /\ scores[i] = best => conf[i].num = conf[i].den

\* C23: distances fails with the empty-query error whenever either list is
\* empty; otherwise it returns one row per image of the first list and one
\* column per image of the second, and leaves the index artifact as it was.
C23_EmptyQuery ==
    ret.op = "distances" =>
        LET img1 == ret.arg[1]
            img2 == ret.arg[2]
        IN  IF Len(img1) = 0 \/ Len(img2) = 0
            THEN ret.err = "EmptyQuery"
            ELSE /\ ret.err = "none"
                 /\ Len(ret.out.distances) = Len(img1)
                 /\ \A i \in DOMAIN ret.out.distances :
                        Len(ret.out.distances[i]) = Len(img2)
                 /\ ret.out.artifact = ret.arg[3]

\* C24: at the end of every operation, failed ones included, a bucket has a
\* classifier exactly when it has at least one image.
C24_TrainedIffMembers ==
    \A b \in BucketIds : buckets[b].svm_model <=> Len(buckets[b].images) >= 1

\* The good and the bad suggestions a step hands to bucket b.
C25_Delivered(b) ==
    IF ret'.op = "user_feedback" /\ ret'.err \notin {"KeyError", "BUG"}
       /\ b \in trained'
    THEN [good |-> Len(ret'.out[1][b].good), bad |-> Len(ret'.out[1][b].bad)]
    ELSE IF ret'.op = "ff_commit" /\ ret'.arg = <<b>> /\ b \in trained'
    THEN [good |-> Len(buckets[b].outstanding_ff),
          bad |-> Len(buckets[b].bad_ff)]
    ELSE [good |-> 0, bad |-> 0]

C25_Counted ==
    \A b \in BucketIds :
        /\ buckets[b].n_good_suggs <= buckets[b].n_judged_suggs
        /\ 0 <= buckets[b].precision.num
        /\ buckets[b].precision.num <= buckets[b].precision.den
        /\ IF buckets[b].n_judged_suggs = 0
           THEN buckets[b].precision.num = buckets[b].precision.den
           ELSE buckets[b].precision.num * buckets[b].n_judged_suggs
                    = buckets[b].n_good_suggs * buckets[b].precision.den

C25_Step ==
    \A b \in BucketIds \cap DOMAIN buckets' :
        /\ buckets'[b].n_good_suggs
              = buckets[b].n_good_suggs + C25_Delivered(b).good
        /\ buckets'[b].n_judged_suggs
              = buckets[b].n_judged_suggs + C25_Delivered(b).good
                    + C25_Delivered(b).bad

C26_Step ==
    (/\ ret'.op = "fast_forward"
     /\ ret'.err = "none"
     /\ ret'.arg[1] # BUCKET_ID)
    => LET b == ret'.arg[1]
           n_ff == ret'.arg[2]
           staged == buckets'[b].outstanding_ff
       IN  /\ buckets[b].svm_model
           /\ Len(staged) = n_ff
           /\ Cardinality(SeqToSet(staged)) = n_ff
           /\ SeqToSet(staged) \cap seen = {}
           /\ buckets'[b].bad_ff = <<>>
           /\ buckets' = [buckets EXCEPT ![b].outstanding_ff = staged,
                                         ![b].bad_ff = <<>>]
           /\ seen' = seen

C27_Step ==
    (/\ ret'.op = "ff_commit"
     /\ ret'.err = "none"
     /\ ret'.arg[1] \in BucketIds)
    => LET b == ret'.arg[1]
           staged == buckets[b].outstanding_ff
           rejected == buckets[b].bad_ff
       IN  IF staged = <<>> /\ rejected = <<>>
           THEN UNCHANGED <<buckets, seen, pile, discard_ff>>
           ELSE /\ seen' = seen \cup SeqToSet(staged) \cup SeqToSet(rejected)
                /\ buckets'[b].images = buckets[b].images \o staged
                /\ buckets'[b].negatives = buckets[b].negatives \o rejected
                /\ buckets'[b].n_good_suggs
                      = buckets[b].n_good_suggs + Len(staged)
                /\ buckets'[b].n_judged_suggs
                      = buckets[b].n_judged_suggs + Len(staged) + Len(rejected)
                /\ b \in trained'
                /\ buckets'[b].outstanding_ff = <<>>
                /\ buckets'[b].bad_ff = <<>>

C27_Commit == [][C27_Step]_vars

\* C27 witness: a commit has returned that made a rejected image a negative
\* judged bad and retrained the bucket.
C27_Witness ==
    /\ ret.op = "ff_commit"
    /\ ret.err = "none"
    /\ \E b \in BucketIds :
        /\ ret.arg = <<b>>
        /\ trained = {b}
        /\ buckets[b].n_judged_suggs > buckets[b].n_good_suggs
        /\ buckets[b].negatives # <<>>
        /\ buckets[b].svm_model
        /\ buckets[b].outstanding_ff = <<>>
        /\ buckets[b].bad_ff = <<>>

\* C28: a discard fast-forward that goes through stages exactly n_ff images
\* in total, each bucket's share being exactly the number asked of it (none
\* when that number is 0), and no staged image is in the seen set.
C28_Step ==
    (/\ ret'.op = "fast_forward"
     /\ ret'.err = "none"
     /\ ret'.arg[1] = BUCKET_ID)
    => /\ SumOver([i \in DOMAIN ret'.out |-> ret'.out[i].n_candidates],
                  DOMAIN ret'.out) = ret'.arg[2]
       /\ Len(discard_ff') = ret'.arg[2]
       /\ SeqToSet(discard_ff') \cap seen = {}

C28_DiscardCandidates == [][C28_Step]_vars

\* s without the first occurrence of each image of the set S
RECURSIVE C29_Without(_, _)
C29_Without(s, S) ==
    IF s = <<>> THEN <<>>
    ELSE IF Head(s) \in S THEN C29_Without(Tail(s), S \ {Head(s)})
    ELSE <<Head(s)>> \o C29_Without(Tail(s), S)

\* the images of s that are in S, in the order of s
C29_Only(s, S) == SelectSeq(s, LAMBDA x : x \in S)

C29_Move ==
    /\ ret'.op = "transfer_images"
    /\ TransferError(ret'.arg) = "none"
    /\ ret'.arg.mode = "move"
    /\ ret'.arg.bucket_src \in BucketIds
    /\ ret'.arg.bucket_dst # ret'.arg.bucket_src

C29_Remove ==
    C29_Move
    => LET b == ret'.arg.bucket_src
           asked == SeqToSet(ret'.arg.images)
           members == asked \cap SeqToSet(buckets[b].images)
           staged == (asked \ members) \cap SeqToSet(buckets[b].outstanding_ff)
       IN  IF asked # members \cup staged
           THEN ret'.err = "NotInBucket"
           ELSE /\ ret'.err \notin {"NotInBucket", "IndexError"}
                /\ buckets'[b].images = C29_Without(buckets[b].images, members)
                /\ buckets'[b].outstanding_ff
                      = C29_Without(buckets[b].outstanding_ff, staged)
                /\ buckets'[b].bad_ff
                      = buckets[b].bad_ff \o C29_Only(ret'.arg.images, staged)
                /\ buckets'[b].negatives = buckets[b].negatives
                /\ asked # {} => b \in trained'

C29_Committed ==
    (/\ ret'.op = "ff_commit"
     /\ ret'.err = "none"
     /\ ret'.arg[1] \in BucketIds)
    => LET b == ret'.arg[1]
       IN  \A x \in SeqToSet(buckets[b].bad_ff) :
              /\ C17_Count(x, buckets'[b].negatives)
                    = C17_Count(x, buckets[b].negatives)
                         + C17_Count(x, buckets[b].bad_ff)
              /\ C17_Count(x, buckets'[b].images)
                    = C17_Count(x, buckets[b].images)
                         + C17_Count(x, buckets[b].outstanding_ff)
              /\ x \notin SeqToSet(buckets[b].outstanding_ff)
              /\ buckets'[b].n_judged_suggs - buckets'[b].n_good_suggs
                    = buckets[b].n_judged_suggs - buckets[b].n_good_suggs
                         + Len(buckets[b].bad_ff)

\* C29: moving images out of a bucket removes each member from the bucket's
\* images (with its confidence), moves each staged non-member from the staged
\* to the rejected images, fails with "not in bucket" when an image is
\* neither, and retrains the bucket when it goes through; a commit that
\* returns makes every rejected image a negative judged bad, not a member.
C29_RemoveImages == [][C29_Remove /\ C29_Committed]_vars

\* C30: a suggest that does not refresh returns, for the exploration request,
\* the first min(n, cache size) cached images before anything new, and, when
\* no feedback came since the previous suggest and the exploration count is
\* the same, the very exploration images the previous suggest returned.
C30_Step ==
    (/\ ret'.op = "suggest"
     /\ ret'.err = "none"
     /\ ~ret'.arg[2]
     /\ ret'.arg[1].randexp # None)
    => LET n == ret'.arg[1].randexp
           cached == Min(n, Len(rx_suggs))
       IN  /\ Len(ExplorationOf(ret'.out)) >= cached
           /\ SubSeq(ExplorationOf(ret'.out), 1, cached)
                 = SubSeq(rx_suggs, 1, cached)
           /\ (explored.made /\ explored.count = n)
                 => ExplorationOf(ret'.out) = explored.images

C30_DudRound == [][C30_Step]_vars

\* The requests in service: they hold the session.
C22_InService ==
    {r \in Requests : session.pc[r] \in {"running", "fed", "done"}}

C22_OneAtATime ==
    /\ Cardinality(C22_InService) <= 1
    /\ \A r \in C22_InService : session.lock = r

C22_State == <<buckets, next_bucket_id, taken, seen, pile, discard_ff,
               rx_suggs, outstanding_suggs>>

C22_Step ==
    /\ C22_State' # C22_State
          => \E r \in Requests :
                /\ session.lock = r
                /\ session.pc[r] \in {"running", "fed"}
                /\ session'.pc[r] \in {"fed", "done"}
    /\ \A r \in Requests :
          session.pc[r] = "fed"
              => /\ \A q \in Requests \ {r} :
                       /\ session'.pc[q] \notin {"running", "fed", "done"}
                       /\ session'.pc[q] = "gone" => session.pc[q] = "gone"
                 /\ C22_State' # C22_State
                       => ret'.op = "suggest" /\ session'.pc[r] = "done"
                 /\ session'.pc[r] # "fed"
                       => ret'.op = "suggest" /\ session'.pc[r] = "done"

C31_Sum(artifact, a, b) ==
    SumOver([s \in Subquantizers |->
                artifact.distance_matrix[s][artifact.index[a][s]]
                                           [artifact.index[b][s]]],
            Subquantizers)

\* C31: for non-empty lists, both distances and the class-level _dist_mat
\* return the matrix whose entry i, j is the sum over the subquantizers of the
\* tabulated distance between the centroids of the i-th image of the first
\* list and of the j-th image of the second.
C31_Distances ==
    (/\ ret.op \in {"distances", "_dist_mat"}
     /\ Len(ret.arg[1]) > 0
     /\ Len(ret.arg[2]) > 0)
    => /\ ret.err = "none"
       /\ DOMAIN ret.out.distances = 1 .. Len(ret.arg[1])
       /\ \A i \in 1 .. Len(ret.arg[1]) :
            /\ DOMAIN ret.out.distances[i] = 1 .. Len(ret.arg[2])
            /\ \A j \in 1 .. Len(ret.arg[2]) :
                  ret.out.distances[i][j]
                      = C31_Sum(ret.arg[3], ret.arg[1][i], ret.arg[2][j])

\* C31 witness: distances has answered for two lists of two images whose
\* entries differ, one of them the largest sum there is.
C31_Witness ==
    /\ ret.op = "distances"
    /\ ret.err = "none"
    /\ Len(ret.arg[1]) = 2
    /\ Len(ret.arg[2]) = 2
    /\ ret.out.distances[1][1] = 0
    /\ ret.out.distances[1][2] = NSubmat * MaxDist
    /\ ret.out.distances[2][2] \notin {0, NSubmat * MaxDist}

\* The queries outstanding before the feedback of a step, and the items of
\* a list that are no answers to them.
C32_Queries == SeqToSet(ret'.arg[1].outstanding_al_queries)

C32_Counted(suggs) == Cardinality(SeqToSet(suggs) \ C32_Queries)

C32_Step ==
    ret'.op = "Bucket.user_feedback" =>
        LET old == ret'.arg[1].bucket
            new == ret'.out.bucket
            f == ret'.arg[2]
            n_good == old.n_good_suggs + C32_Counted(f.good)
            n_judged == old.n_judged_suggs + C32_Counted(f.good)
                            + C32_Counted(f.bad)
        IN  IF EmptyFeedback(f.good, f.neutral, f.bad)
            THEN ret'.out = ret'.arg[1]
            ELSE /\ new.n_good_suggs = n_good
                 /\ new.n_judged_suggs = n_judged
                 /\ new.precision = IF n_judged = 0 THEN Fraction(1, 1)
                                    ELSE Fraction(n_good, n_judged)
                 /\ (C32_Counted(f.good) = 0 /\ C32_Counted(f.bad) = 0)
                        => new.precision = old.precision
                 /\ SeqToSet(f.good) \cap C32_Queries \subseteq SeqToSet(new.images)
                 /\ SeqToSet(f.bad) \cap C32_Queries
                        \subseteq SeqToSet(new.negatives)
                 /\ Len(new.images) = Len(old.images) + Len(f.good)
                                          + Len(f.neutral)
                 /\ Len(new.negatives) = Len(old.negatives) + Len(f.bad)
                 /\ ret'.out.outstanding_al_queries = <<>>

\* C32: in the active-learning oracle mode, a feedback item that answers an
\* outstanding query of the bucket changes neither the good nor the judged
\* counter nor the precision: only the other good and bad items are counted,
\* and the precision is the quotient of the two counters (1.0 when nothing
\* was judged).  A good answer becomes a member, a bad answer a negative, and
\* after any non-empty feedback no query is outstanding; an empty feedback
\* changes nothing.
C32_OracleAl == [][C32_Step]_vars

\* A good and a bad answer to queries of one round were given, and nothing
\* was counted as judged.
C32_Witness ==
    /\ ret.op = "Bucket.user_feedback"
    /\ \E x \in SeqToSet(ret.arg[2].good) :
          x \in SeqToSet(ret.arg[1].outstanding_al_queries)
    /\ \E x \in SeqToSet(ret.arg[2].bad) :
          x \in SeqToSet(ret.arg[1].outstanding_al_queries)
    /\ ret.out.bucket.n_judged_suggs = 0
    /\ ret.out.outstanding_al_queries = <<>>

\* The rows and labels r of a retrain of bucket bk with discard pile pl.
C33_Rows(r, bk, pl) ==
    LET P == Len(bk.images)
        K == Len(bk.negatives)
        n_negatives == IF K > 2 * P THEN K ELSE 2 * P
        n_pile == IF K >= 2 * P THEN 0 ELSE Min(2 * P - K, Len(pl))
    IN  /\ Len(r.train_idx) = P + n_negatives
        /\ Len(r.labels) = Len(r.train_idx)
        /\ \A i \in DOMAIN r.labels : r.labels[i] = IF i <= P THEN 1 ELSE -1
        /\ SubSeq(r.train_idx, 1, P + K) = bk.images \o bk.negatives
        /\ \A i \in (P + K + 1) .. (P + K + n_pile) :
              r.train_idx[i] \in SeqToSet(pl)
        /\ \A i \in (P + K + n_pile + 1) .. Len(r.train_idx) :
              /\ Len(pl) < 2 * P - K
              /\ \A j \in 1 .. (i - 1) : r.train_idx[j] # r.train_idx[i]

C33_Step ==
    (ret'.op = "_train" /\ Len(ret'.arg.bucket.images) >= 1) =>
        /\ ret'.err = "none"
        /\ C33_Rows(ret'.out, ret'.arg.bucket, ret'.arg.pile)

\* C33: whenever a retrain runs on a bucket with P >= 1 images and K own
\* negatives, it gets a training set of P positives and exactly max(K, 2P)
\* negatives with one label per row: the rows are the images, then the own
\* negatives, then a padding up to 2P negatives taken from the discard pile,
\* and, only when the pile holds fewer than 2P - K images, rows of the rest
\* of the collection that are not yet in the training set.
C33_TrainingSet == [][C33_Step]_vars

\* The good suggestions, the neutral assignments and the bad suggestions a
\* step hands to Bucket.user_feedback of bucket b through AIModel.user_feedback
\* or ff_commit.
C34_Handed(b) ==
    IF ret'.op = "user_feedback" /\ ret'.err \notin {"KeyError", "BUG"}
    THEN <<ret'.out[1][b].good, ret'.out[1][b].neutral, ret'.out[1][b].bad>>
    ELSE IF ret'.op = "ff_commit" /\ ret'.arg = <<b>>
    THEN <<buckets[b].outstanding_ff, <<>>, buckets[b].bad_ff>>
    ELSE <<<<>>, <<>>, <<>>>>

C34_Slid(old, new, st) ==
    \E hits \in 0 .. Len(old.outstanding_suggs[st]) :
        /\ new.all_suggs[st]
              = Tail(old.all_suggs[st]) \o <<Len(old.outstanding_suggs[st])>>
        /\ new.good_suggs[st] = Tail(old.good_suggs[st]) \o <<hits>>

C34_Windows ==
    \A b \in BucketIds : \A st \in SuggTypes :
        /\ Len(buckets[b].all_suggs[st]) = expsearch_n_rounds
        /\ Len(buckets[b].good_suggs[st]) = expsearch_n_rounds
        /\ \A i \in 1 .. expsearch_n_rounds :
              /\ 0 <= buckets[b].good_suggs[st][i]
              /\ buckets[b].good_suggs[st][i] <= buckets[b].all_suggs[st][i]
        /\ SumSeq(buckets[b].good_suggs[st]) <= SumSeq(buckets[b].all_suggs[st])
        /\ ~(ConfidenceIsOne(buckets[b], st) /\ ConfidenceIsZero(buckets[b], st))
        /\ SumSeq(buckets[b].all_suggs[st]) = 0
              => ConfidenceIsOne(buckets[b], st)

C34_Step ==
    \A b \in BucketIds \cap DOMAIN buckets' : \A st \in SuggTypes :
        /\ \/ /\ buckets'[b].all_suggs[st] = buckets[b].all_suggs[st]
              /\ buckets'[b].good_suggs[st] = buckets[b].good_suggs[st]
           \/ C34_Slid(buckets[b], buckets'[b], st)
        /\ ~EmptyFeedback(C34_Handed(b)[1], C34_Handed(b)[2], C34_Handed(b)[3])
              => C34_Slid(buckets[b], buckets'[b], st)

C35_Held == {buckets[b].color : b \in BucketIds} \cap (0 .. (N_COLORS - 1))

C35_Palette ==
    /\ \A b1, b2 \in BucketIds :
          (b1 # b2 /\ buckets[b1].color \in 0 .. (N_COLORS - 1))
              => buckets[b1].color # buckets[b2].color
    /\ \A i \in 0 .. (N_COLORS - 1) : taken[i] <=> i \in C35_Held

C35_Step ==
    /\ (ret'.op = "create_bucket" /\ ret'.err = "none") =>
          LET color == buckets'[ret'.out[1]].color
              free == (0 .. (N_COLORS - 1)) \ C35_Held
          IN  IF free = {}
              THEN color \notin 0 .. (N_COLORS - 1) /\ taken' = taken
              ELSE /\ color \in free
                   /\ \A i \in free : color <= i
                   /\ taken' = [taken EXCEPT ![color] = TRUE]
    /\ (ret'.op = "delete_bucket" /\ ret'.err = "none") =>
          LET color == buckets[ret'.arg[1]].color
          IN  IF color \in 0 .. (N_COLORS - 1)
              THEN taken' = [taken EXCEPT ![color] = FALSE]
              ELSE taken' = taken

\* C35: assign_color hands a new bucket the lowest palette colour that no
\* bucket holds and marks it taken (a derived colour, and no mark, when all
\* are held); deleting a bucket frees exactly the slot of its colour and
\* nothing when its colour is not of the palette.  So in every state no two
\* buckets hold the same palette colour and a slot is taken exactly when some
\* bucket holds its colour.
C35_Colors == []C35_Palette /\ [][C35_Step]_vars

\* C35 witness: a bucket of the palette was just deleted while another bucket
\* holds a derived colour: one slot is free, the others are held.
C35_Witness ==
    /\ ret.op = "delete_bucket"
    /\ ret.err = "none"
    /\ \E b \in BucketIds : buckets[b].color = DerivedColor
    /\ Cardinality(C35_Held) = N_COLORS - 1

\* C36: at the end of every operation, every image a bucket holds as a
\* member or as a negative, and every image of the discard pile, is in the
\* seen set, images that came through a transfer of a staged fast-forward
\* image or through a fast-forward commit included.
C36_HeldAreSeen ==
    /\ \A b \in BucketIds :
          SeqToSet(buckets[b].images) \cup SeqToSet(buckets[b].negatives)
              \subseteq seen
    /\ SeqToSet(pile) \subseteq seen

\* C37: the list one AIModel.suggest returns holds no image twice: the blocks
\* of the buckets, the explorer's substitutes and top-ups and the exploration
\* block are pairwise disjoint, as are the channels within one bucket, so
\* each image of the list stands for exactly one bucket.
C37_NoImageTwice ==
    (ret.op = "suggest" /\ ret.err = "none") =>
        \A i, j \in DOMAIN ret.out :
            i # j => ret.out[i].image # ret.out[j].image

\* A feedback entry on an image recorded as unsuggested (bucket 0).
C38_Unsuggested(e) ==
    /\ e.image \in DOMAIN outstanding_suggs
    /\ outstanding_suggs[e.image] = BUCKET_ID

C38_Recorded ==
    (ret.op = "suggest" /\ ret.err = "none") =>
        \A i \in DOMAIN ret.out :
            outstanding_suggs[ret.out[i].image]
                = IF ret.out[i].bucket = BUCKET_ID THEN BUCKET_ID
                  ELSE ret.out[i].key

C38_Binned ==
    (ret'.op = "user_feedback" /\ ret'.err \notin {"KeyError", "BUG"}) =>
        LET fb == Judged(ret'.arg)
            bw == ret'.out[1]
        IN  \A i \in DOMAIN fb :
                C38_Unsuggested(fb[i]) =>
                    /\ \A b \in BucketIds :
                          fb[i].image \notin SeqToSet(bw[b].good)
                                                \cup SeqToSet(bw[b].bad)
                    /\ IF fb[i].assigned = BUCKET_ID
                       THEN /\ fb[i].image \in SeqToSet(ret'.out[2])
                            /\ \A b \in BucketIds :
                                  fb[i].image \notin SeqToSet(bw[b].neutral)
                       ELSE fb[i].image \in SeqToSet(bw[fb[i].assigned].neutral)

C38_Uncounted ==
    (/\ ret'.op = "user_feedback"
     /\ ret'.err \notin {"KeyError", "BUG"}
     /\ \A i \in DOMAIN Judged(ret'.arg) : C38_Unsuggested(Judged(ret'.arg)[i]))
    => \A b \in BucketIds :
          /\ buckets'[b].n_good_suggs = buckets[b].n_good_suggs
          /\ buckets'[b].n_judged_suggs = buckets[b].n_judged_suggs
          /\ buckets'[b].precision = buckets[b].precision
          /\ buckets'[b].all_suggs = buckets[b].all_suggs
          /\ buckets'[b].good_suggs = buckets[b].good_suggs

\* C38: the images the randomized explorer produces for AIModel.suggest (the
\* exploration block, the substitutes and top-ups of a bucket) are recorded
\* in the outstanding suggestions as unsuggested (bucket 0) and the images of
\* a bucket's own channels as suggested for that bucket; feedback on an
\* unsuggested image is a neutral assignment or a discard only, never a good
\* or bad suggestion of any bucket, and changes no bucket's counters,
\* precision or sliding windows.
C38_Unsuggesteds == []C38_Recorded /\ [][C38_Binned /\ C38_Uncounted]_vars

\* C39: the error of mismatched parallel lists is never raised: in every
\* state a bucket has one confidence per image, and every suggest on a
\* bucket with a model hands ImageList.image_list lists of equal length, also
\* when fewer unseen images are left than were asked for.
C39_ParallelLists ==
    /\ \A b \in BucketIds :
          buckets[b].n_img_confidences = Len(buckets[b].images)
    /\ ret.err # "ListLengthBug"

\* C6: at most N_MAX_ACTIVE_BUCKETS buckets are active in every state;
\* create_bucket makes the new bucket active exactly when fewer than that many
\* are active and touches no other flag; toggle_bucket is refused (MaxActive)
\* exactly for an inactive bucket while the cap is reached, and then no active
\* flag changes; every other toggle of an existing bucket flips that flag only.
C6_Cap == Cardinality(_active_buckets) <= N_MAX_ACTIVE_BUCKETS

C6_Step ==
    /\ ret'.op = "create_bucket" /\ ret'.err = "none" =>
          /\ buckets'[ret'.out[1]].active
                = (Cardinality(_active_buckets) < N_MAX_ACTIVE_BUCKETS)
          /\ ret'.out[2] = buckets'[ret'.out[1]].active
          /\ \A c \in BucketIds : buckets'[c].active = buckets[c].active
    /\ ret'.op = "toggle_bucket" /\ ret'.arg[1] \in BucketIds =>
          IF /\ ~buckets[ret'.arg[1]].active
             /\ Cardinality(_active_buckets) = N_MAX_ACTIVE_BUCKETS
          THEN /\ ret'.err = "MaxActive"
               /\ \A c \in BucketIds : buckets'[c].active = buckets[c].active
          ELSE /\ ret'.err = "none"
               /\ \A c \in BucketIds :
                    buckets'[c].active = IF c = ret'.arg[1]
                                         THEN ~buckets[c].active
                                         ELSE buckets[c].active

C6_ActiveCap == []C6_Cap /\ [][C6_Step]_vars

\* C6 witness: with more buckets than may be active and the cap reached, a
\* toggle has just been refused.
C6_Witness ==
    /\ ret.op = "toggle_bucket"
    /\ ret.err = "MaxActive"
    /\ Cardinality(_active_buckets) = N_MAX_ACTIVE_BUCKETS
    /\ Cardinality(BucketIds) > N_MAX_ACTIVE_BUCKETS

\* C7: the display orders of the k existing buckets are exactly 0 .. k-1 (so
\* pairwise distinct); create_bucket gives the new bucket order k and changes
\* no other order, delete_bucket decrements exactly the orders above the
\* deleted one, swap_buckets exchanges the two orders and changes no other.
C7_Orders ==
    {buckets[b].ordering : b \in BucketIds} = 0 .. (Cardinality(BucketIds) - 1)

C7_Step ==
    /\ ret'.op = "create_bucket" /\ ret'.err = "none" =>
          /\ buckets'[ret'.out[1]].ordering = Cardinality(BucketIds)
          /\ \A c \in BucketIds : buckets'[c].ordering = buckets[c].ordering
    /\ ret'.op = "delete_bucket" /\ ret'.err = "none" =>
          /\ DOMAIN buckets' = BucketIds \ {ret'.arg[1]}
          /\ \A c \in DOMAIN buckets' :
                buckets'[c].ordering =
                    IF buckets[c].ordering > buckets[ret'.arg[1]].ordering
                    THEN buckets[c].ordering - 1
                    ELSE buckets[c].ordering
    /\ ret'.op = "swap_buckets" /\ ret'.err = "none" =>
          /\ buckets'[ret'.arg[1]].ordering = buckets[ret'.arg[2]].ordering
          /\ buckets'[ret'.arg[2]].ordering = buckets[ret'.arg[1]].ordering
          /\ \A c \in BucketIds \ {ret'.arg[1], ret'.arg[2]} :
                buckets'[c].ordering = buckets[c].ordering

C7_DisplayOrders == []C7_Orders /\ [][C7_Step]_vars

\* C7 witness: a bucket has just been deleted from a set whose display order
\* is no longer the order of creation, and a bucket created after it remains.
C7_Witness ==
    /\ ret.op = "delete_bucket"
    /\ ret.err = "none"
    /\ \E b \in BucketIds : b > ret.arg[1]
    /\ \E b, c \in BucketIds : b < c /\ buckets[b].ordering > buckets[c].ordering

\* C8: at least one bucket exists in every state; delete_bucket with exactly
\* one bucket fails with CannotDeleteLast and changes neither the buckets nor
\* the palette nor the id counter, and it fails so in no other state.
C8_AtLeastOne == BucketIds # {}

C8_Step ==
    ret'.op = "delete_bucket" =>
        IF Cardinality(BucketIds) = 1
        THEN /\ ret'.err = "CannotDeleteLast"
             /\ buckets' = buckets
             /\ taken' = taken
             /\ next_bucket_id' = next_bucket_id
        ELSE ret'.err # "CannotDeleteLast"

C8_LastBucketKept == []C8_AtLeastOne /\ [][C8_Step]_vars

\* C8 witness: the deletion of the only bucket has just been refused.
C8_Witness ==
    /\ ret.op = "delete_bucket"
    /\ ret.err = "CannotDeleteLast"
    /\ ret.arg[1] \in BucketIds

\* C9: every existing id is at least INIT_BUCKET_ID, below the id counter and
\* neither the discard pile's id nor the exploration key; the counter never
\* decreases, a new bucket gets the counter's value and the counter then moves
\* past it: so a new id exceeds every id handed out before.
C9_Ids ==
    \A b \in BucketIds :
        /\ b >= INIT_BUCKET_ID
        /\ b < next_bucket_id
        /\ b # BUCKET_ID
        /\ b # RANDOM_EXPLORE_REQUEST

C9_Step ==
    /\ next_bucket_id' >= next_bucket_id
    /\ \A b \in (DOMAIN buckets') \ BucketIds :
          /\ b = next_bucket_id
          /\ next_bucket_id' > b
          /\ \A c \in BucketIds : c < b

C9_FreshIds == []C9_Ids /\ [][C9_Step]_vars

\* C9 witness: a bucket has just been created while a smaller id is free
\* again (its bucket was deleted).
C9_Witness ==
    /\ ret.op = "create_bucket"
    /\ ret.err = "none"
    /\ \E id \in INIT_BUCKET_ID .. (ret.out[1] - 1) : id \notin BucketIds

\* C10: no step removes an item from the seen set, and updating the set with
\* any items it already holds gives the same set.
C10_Idempotent ==
    \A k \in 0 .. Cardinality(seen) :
        \A again \in Arrangements(seen, k) : SeenUpdate(seen, again) = seen

C10_SeenGrows == []C10_Idempotent /\ [][seen \subseteq seen']_vars

\* C10 witness: the same image has been judged (discarded) twice, so the
\* second update met an image already in the set.
C10_Witness ==
    /\ ret.op = "user_feedback"
    /\ ret.err = "none"
    /\ Len(pile) = 2
    /\ pile[1] = pile[2]
    /\ pile[1] \in seen

====
